---- MODULE Spec2Model ----
(***************************************************************************)
(* Verification model of the quiz-shorts automation repository.           *)
(*                                                                         *)
(* The repository holds several variants of the same pipeline.  Each       *)
(* component is modelled as its own state machine over its own group of    *)
(* variables, with one specification per component:                        *)
(*   SpecChain   src/src/pipeline/fallback.py   try_chain                  *)
(*   SpecRate    src/src/utils/rate_limit.py    RateLimiter                *)
(*   SpecDaily   src/src/main.py                run_daily_automation       *)
(*   SpecScripts src/scripts/main.py            main / process_shorts      *)
(*   SpecSource  src/src/generators/question.py generate_unique_short_spec *)
(*               src/yt_auto/llm.py             generate_quiz_item         *)
(*   SpecGate    src/src/generators/question.py _looks_safe                *)
(*   SpecTiming  src/yt_auto/video.py           build_short                *)
(*               src/src/pipeline/media.py      compose_short              *)
(*   SpecPublish src/yt_auto/youtube_uploader.py upload_video              *)
(*               src/src/video_generator.py     create_short_video         *)
(*               src/scripts/youtube_utils.py   upload_to_youtube          *)
(*   SpecModels  src/src/main.py                generate_question          *)
(*               src/src/ai_manager.py          AIManager.generate_question *)
(***************************************************************************)
EXTENDS Integers, Sequences, FiniteSets, TLC

VARIABLES
    \* ---- try_chain (pipeline/fallback.py)
    cHandlers,      \* the handler list: what each handler does when called
    cPc,            \* "off" | "loop" | "returned" | "raised"
    cIdx,           \* enumerate(handlers, start=1) position
    cLastError,     \* last_error
    cCalls,         \* indices of the handlers invoked so far, in call order
    cWarned,        \* errors passed to warn(), in order
    cResult,        \* value returned by try_chain
    cRaised,        \* exception raised by try_chain
    \* ---- RateLimiter (utils/rate_limit.py)
    rlOn,           \* whether the component is exercised
    rlFile,         \* content of the JSON file at self.path (NoFile: absent)
    max_per_day,    \* self.max_per_day
    now,            \* the clock: [day, tick]
    rlLastOp,       \* last method called today
    rlAnswer,       \* what the last can_upload returned
    rlRemaining,    \* what the last remaining returned
    rlRecorded,     \* number of record_upload calls made on the current date
    rlTrueCount,    \* number of true answers of can_upload on the current date
    rlPending,      \* a true answer not yet followed by record_upload
    rlBroken,       \* some true answer today was not followed by record_upload
    \* ---- generate_unique_short_spec (generators/question.py)
    qPc,            \* "off" | "llm" | "bank" | "final" | "returned" | "raised"
    qAttempt,       \* attempt of "for attempt in range(1, 7)"
    qBankTry,       \* iteration of "for _ in range(1, 50)"
    qUsed,          \* questions the StateStore holds as used
    qSpec,          \* the ShortSpec returned
    qVia,           \* which return statement produced it
    qRaised,        \* exception that left the function
    \* ---- generate_quiz_item (yt_auto/llm.py)
    gPc,            \* "off" | "provider" | "attempt" | "returned" | "recorded" | "raised"
    gOrder,         \* cfg.llm_order
    gKeys,          \* providers whose API key is configured
    gAllowPaid,     \* cfg.allow_paid_providers
    gProvIdx,       \* position of "for provider in cfg.llm_order"
    gAttempt,       \* attempt of "for attempt in range(1, policy.max_attempts + 1)"
    gCalls,         \* providers called over the network, in call order
    gItem,          \* the QuizItem returned
    gRaised,        \* exception that left the function
    gGood,          \* provider calls so far that produced a valid, safe item
    gDedup,         \* fingerprints the dedup store holds
    \* ---- YouTubeShortsAutomation.run_daily_automation (src/main.py)
    dPc,            \* "off" | "idle" | "question" | "video" | "upload" | "finish" | "done"
    dEnvOk,         \* the required environment variables are set
    dRun,           \* runs started so far on this calendar date
    dI,             \* i of "for i in range(4)"
    dUploaded,      \* len(uploaded_shorts)
    dFailed,        \* slots of this run that ended without an upload
    dLong,          \* "none" | "not_compiled" | "compile_failed" | "upload_tried"
    dResult,        \* what the last run returned
    dPublishedToday,\* shorts on the channel from all runs of this date
    \* ---- main / process_shorts / generate_unique_question (scripts/main.py)
    sPc,            \* "off" | "idle" | "generate" | "tts" | "video" | "compile" | "auth"
                    \* | "upload" | "upload_compilation" | "save" | "done" | "failed"
    sFile,          \* content of the history file (NoHistoryFile: absent)
    sHistory,       \* the history dict of the running process
    sDay,           \* the current UTC calendar date
    sToday,         \* today, as computed by the running process
    sRun,           \* runs started so far
    sI,             \* i of "for i in range(4)" in process_shorts
    sAttempt,       \* attempt of generate_unique_question
    sCur,           \* short_data of the short in production
    sShorts,        \* shorts produced by process_shorts (their questions)
    sUp,            \* number of shorts uploaded by the running process
    sError,         \* exception that ended the last run
    sAccepted,      \* fingerprints of all items accepted for production so far
    sDupAccepted,   \* an item was accepted whose fingerprint was accepted before
    sUploaded,      \* questions of all shorts uploaded so far
    \* ---- _looks_safe (generators/question.py), called on its own
    gtPc,           \* "off" | "input" | "validated"
    gtQuestion,     \* the question argument
    gtAnswer,       \* the answer argument
    gtOk,           \* what _looks_safe returned
    \* ---- build_short (yt_auto/video.py); times in ticks of 0.1 ms
    tPc,            \* "off" | "input" | "planned" | "render" | "failed"
    tAudioDur,      \* audio_dur, as probed
    tCountdown,     \* cfg.countdown_seconds (whole seconds)
    tReveal,        \* cfg.answer_reveal_seconds (whole seconds)
    tPlan,          \* the timing values computed by build_short
    tT,             \* t of the frame being drawn
    tShown,         \* countdown value drawn on that frame
    tPrev,          \* countdown value drawn on the frame before
    \* ---- compose_short (pipeline/media.py); times in half seconds
    mPc,            \* "off" | "input" | "render"
    mQuestionDuration, \* question_duration (whole seconds)
    mT,             \* t of the frame being drawn
    mShown,         \* countdown value drawn on that frame
    mPrev,          \* countdown value drawn on the frame before
    \* ---- YouTubeUploader.upload_video (yt_auto/youtube_uploader.py)
    uPc,            \* "off" | "service" | "chunk" | "returned" | "raised"
    uLen,           \* len(self.oauth_list)
    uOauth,         \* position of "for oauth in self.oauth_list"
    uAttempt,       \* attempt of "for attempt in range(1, policy.max_attempts + 1)"
    uChunks,        \* next_chunk calls of this attempt that returned no response
    uMade,          \* attempts started so far
    uIds,           \* attempts so far whose response held a video id
    uResult,        \* "none" | "UploadResult" | the exception raised
    \* ---- create_short_video (src/main.py, video_generator.py); whole seconds
    vPc,            \* "off" | "question_audio" | "countdown_audio" | "video" | "done"
    vQuestionDuration, \* question_duration, as probed from the question audio
    vCountdownFile, \* os.path.exists(countdown_audio_path)
    vClips,         \* clips, as concatenated into final_video
    vDuration,      \* duration of final_video
    vCreated,       \* what QuizAutomation.create_short_video returned
    \* ---- upload_to_youtube (scripts/youtube_utils.py)
    yPc,            \* "off" | "start" | "attempt" | "returned" | "raised"
    yAttempt,       \* attempt of "for attempt in range(MAX_RETRIES)"
    ySlept,         \* time.sleep(RETRY_DELAY) calls made
    yResult,        \* "none" | "video_id" | "None" | the exception raised
    \* ---- YouTubeShortsAutomation.generate_question (src/main.py)
    fPc,            \* "off" | "loop" | "returned"
    fOrder,         \* AI_CONFIG["primary"]["fallback_order"]
    fAvail,         \* models whose client QuestionGenerator.setup_apis has set
    fIdx,           \* position of "for model in fallback_order"
    fTried,         \* models generate_with_model was called for, in order
    fResult,        \* where the returned question came from, "None" for None
    \* ---- AIManager.generate_question (src/ai_manager.py)
    aPc,            \* "off" | "loop" | "fallback" | "returned" | "raised"
    aAvail,         \* self.available_models
    aIdx,           \* position of "for model_name in self.available_models"
    aCalls,         \* models _generate_with_model was called for, in order
    aResult,        \* source of the question returned
    aRaised         \* exception that left generate_question

chainVars == <<cHandlers, cPc, cIdx, cLastError, cCalls, cWarned, cResult, cRaised>>
rateVars == <<rlOn, rlFile, max_per_day, now, rlLastOp, rlAnswer, rlRemaining,
              rlRecorded, rlTrueCount, rlPending, rlBroken>>
qVars == <<qPc, qAttempt, qBankTry, qUsed, qSpec, qVia, qRaised>>
gVars == <<gPc, gOrder, gKeys, gAllowPaid, gProvIdx, gAttempt, gCalls, gItem, gRaised,
          gGood, gDedup>>
dVars == <<dPc, dEnvOk, dRun, dI, dUploaded, dFailed, dLong, dResult, dPublishedToday>>
sVars == <<sPc, sFile, sHistory, sDay, sToday, sRun, sI, sAttempt, sCur, sShorts, sUp,
           sError, sAccepted, sDupAccepted, sUploaded>>
gateVars == <<gtPc, gtQuestion, gtAnswer, gtOk>>
tVars == <<tPc, tAudioDur, tCountdown, tReveal, tPlan, tT, tShown, tPrev>>
mVars == <<mPc, mQuestionDuration, mT, mShown, mPrev>>
uVars == <<uPc, uLen, uOauth, uAttempt, uChunks, uMade, uIds, uResult>>
vVars == <<vPc, vQuestionDuration, vCountdownFile, vClips, vDuration, vCreated>>
yVars == <<yPc, yAttempt, ySlept, yResult>>
fVars == <<fPc, fOrder, fAvail, fIdx, fTried, fResult>>
aVars == <<aPc, aAvail, aIdx, aCalls, aResult, aRaised>>
vars == <<chainVars, rateVars, qVars, gVars, dVars, sVars, gateVars, tVars, mVars,
          uVars, vVars, yVars, fVars, aVars>>

\* What each component leaves alone: the other components' variables.
chainOthers == <<rateVars, qVars, gVars, dVars, sVars, gateVars, tVars, mVars,
    uVars, vVars, yVars, fVars, aVars>>
rateOthers == <<chainVars, qVars, gVars, dVars, sVars, gateVars, tVars, mVars,
    uVars, vVars, yVars, fVars, aVars>>
qOthers == <<chainVars, rateVars, gVars, dVars, sVars, gateVars, tVars, mVars,
    uVars, vVars, yVars, fVars, aVars>>
gOthers == <<chainVars, rateVars, qVars, dVars, sVars, gateVars, tVars, mVars,
    uVars, vVars, yVars, fVars, aVars>>
dOthers == <<chainVars, rateVars, qVars, gVars, sVars, gateVars, tVars, mVars,
    uVars, vVars, yVars, fVars, aVars>>
sOthers == <<chainVars, rateVars, qVars, gVars, dVars, gateVars, tVars, mVars,
    uVars, vVars, yVars, fVars, aVars>>
gateOthers == <<chainVars, rateVars, qVars, gVars, dVars, sVars, tVars, mVars,
    uVars, vVars, yVars, fVars, aVars>>
tOthers == <<chainVars, rateVars, qVars, gVars, dVars, sVars, gateVars, mVars,
    uVars, vVars, yVars, fVars, aVars>>
mOthers == <<chainVars, rateVars, qVars, gVars, dVars, sVars, gateVars, tVars,
    uVars, vVars, yVars, fVars, aVars>>
uOthers == <<chainVars, rateVars, qVars, gVars, dVars, sVars, gateVars, tVars, mVars,
    vVars, yVars, fVars, aVars>>
vOthers == <<chainVars, rateVars, qVars, gVars, dVars, sVars, gateVars, tVars, mVars,
    uVars, yVars, fVars, aVars>>
yOthers == <<chainVars, rateVars, qVars, gVars, dVars, sVars, gateVars, tVars, mVars,
    uVars, vVars, fVars, aVars>>
fOthers == <<chainVars, rateVars, qVars, gVars, dVars, sVars, gateVars, tVars, mVars,
    uVars, vVars, yVars, aVars>>
aOthers == <<chainVars, rateVars, qVars, gVars, dVars, sVars, gateVars, tVars, mVars,
    uVars, vVars, yVars, fVars>>

None == "None"

(***************************************************************************)
(* try_chain                                                               *)
(***************************************************************************)
MaxHandlers == 3
HandlerValues == {"x", "y"}
HandlerErrors == {"errA", "errB"}
NoProvidersError == "chain has no providers"

\* A handler is a zero-argument callable: calling it returns a value or raises.
HandlerBehaviours ==
    [kind : {"return"}, val : HandlerValues] \cup [kind : {"raise"}, val : HandlerErrors]

HandlerLists ==
    UNION {[1..n -> HandlerBehaviours] : n \in 0..MaxHandlers}

ChainInit ==
    /\ cHandlers \in HandlerLists
    /\ cPc = "loop"
    /\ cIdx = 1
    /\ cLastError = None
    /\ cCalls = <<>>
    /\ cWarned = <<>>
    /\ cResult = None
    /\ cRaised = None

ChainOff ==
    /\ cHandlers = <<>>
    /\ cPc = "off"
    /\ cIdx = 1
    /\ cLastError = None
    /\ cCalls = <<>>
    /\ cWarned = <<>>
    /\ cResult = None
    /\ cRaised = None

\* "except Exception as exc: last_error = exc"
LastErrorFirstOnly(prev, exc) == IF prev = None THEN exc ELSE prev

LastErrorAfter(prev, exc) == exc

\* One iteration of "for idx, handler in enumerate(handlers, start=1)":
\* the handler returns and try_chain returns its value.
TryHandlerReturn ==
    /\ cPc = "loop"
    /\ UNCHANGED chainOthers
    /\ cIdx <= Len(cHandlers)
    /\ cHandlers[cIdx].kind = "return"
    /\ cCalls' = Append(cCalls, cIdx)
    /\ cResult' = cHandlers[cIdx].val
    /\ cPc' = "returned"
    /\ UNCHANGED <<cHandlers, cIdx, cLastError, cWarned, cRaised>>

\* The iteration after a handler that fails: where the loop goes next.
NextHandlerRetry(idx) == idx

NextHandler(idx) == idx + 1

\* One iteration whose handler raises: the error is kept and logged, and the
\* loop moves on.
TryHandlerRaise ==
    /\ cPc = "loop"
    /\ UNCHANGED chainOthers
    /\ cIdx <= Len(cHandlers)
    /\ cHandlers[cIdx].kind = "raise"
    /\ cCalls' = Append(cCalls, cIdx)
    /\ cLastError' = LastErrorAfter(cLastError, cHandlers[cIdx].val)
    /\ cWarned' = Append(cWarned, cHandlers[cIdx].val)
    /\ cIdx' = NextHandler(cIdx)
    /\ UNCHANGED <<cHandlers, cPc, cResult, cRaised>>

\* After the loop: "if last_error: raise last_error", else the RuntimeError.
ChainExhausted ==
    /\ cPc = "loop"
    /\ UNCHANGED chainOthers
    /\ cIdx > Len(cHandlers)
    /\ cRaised' = IF cLastError # None THEN cLastError ELSE NoProvidersError
    /\ cPc' = "raised"
    /\ UNCHANGED <<cHandlers, cIdx, cLastError, cCalls, cWarned, cResult>>

ChainNext == TryHandlerReturn \/ TryHandlerRaise \/ ChainExhausted

(***************************************************************************)
(* RateLimiter                                                             *)
(***************************************************************************)
MaxPerDayCap == 3       \* max_per_day is drawn from 1..MaxPerDayCap
MaxCount == 5           \* record_upload is not called beyond this stored count
MaxDay == 2             \* calendar days covered
MaxTick == 1            \* distinct instants within a day

NoFile == [date |-> -1, count |-> -1]
NoDate == 0
DefaultState == [date |-> NoDate, count |-> 0]

\* read_json(path, default): the file's content, or the default when absent.
read_json(file, default) == IF file = NoFile THEN default ELSE file

\* write_json(path, data)
write_json(data) == data

\* now.strftime("%Y-%m-%d"): the calendar date of an instant.
strftime(t) == t.day

RateInit ==
    /\ rlOn = TRUE
    /\ rlFile = NoFile
    /\ max_per_day \in 1..MaxPerDayCap
    /\ now = [day |-> 1, tick |-> 0]
    /\ rlLastOp = "none"
    /\ rlAnswer = FALSE
    /\ rlRemaining = 0
    /\ rlRecorded = 0
    /\ rlTrueCount = 0
    /\ rlPending = FALSE
    /\ rlBroken = FALSE

RateOff ==
    /\ rlOn = FALSE
    /\ rlFile = NoFile
    /\ max_per_day = 1
    /\ now = [day |-> 1, tick |-> 0]
    /\ rlLastOp = "none"
    /\ rlAnswer = FALSE
    /\ rlRemaining = 0
    /\ rlRecorded = 0
    /\ rlTrueCount = 0
    /\ rlPending = FALSE
    /\ rlBroken = FALSE

can_upload_inclusive(t) ==
    LET data == read_json(rlFile, DefaultState)
    IN  IF data.date # strftime(t) THEN TRUE ELSE data.count <= max_per_day

can_upload(t) ==
    LET data == read_json(rlFile, DefaultState)
    IN  IF data.date # strftime(t) THEN TRUE ELSE data.count < max_per_day

\* record_upload without the reset of line 21: the old count is carried into the new date.
record_upload_data_no_reset(t) ==
    LET data == read_json(rlFile, DefaultState)
        date_key == strftime(t)
    IN  [date |-> date_key, count |-> data.count + 1]

record_upload_data(t) ==
    LET data == read_json(rlFile, DefaultState)
        date_key == strftime(t)
        fresh == IF data.date # date_key THEN [date |-> date_key, count |-> 0] ELSE data
    IN  [fresh EXCEPT !.count = @ + 1]

\* remaining without the date comparison of line 29.
remaining_ignoring_date(t) ==
    LET data == read_json(rlFile, DefaultState)
        diff == max_per_day - data.count
    IN  IF diff > 0 THEN diff ELSE 0

\* remaining without the max(..., 0) of line 31.
remaining_unclamped(t) ==
    LET data == read_json(rlFile, DefaultState)
        date_key == strftime(t)
    IN  IF data.date # date_key THEN max_per_day ELSE max_per_day - data.count

remaining(t) ==
    LET data == read_json(rlFile, DefaultState)
        date_key == strftime(t)
        diff == max_per_day - data.count
    IN  IF data.date # date_key THEN max_per_day
        ELSE IF diff > 0 THEN diff ELSE 0

CanUpload ==
    /\ rlOn
    /\ UNCHANGED rateOthers
    /\ rlAnswer' = can_upload(now)
    /\ rlLastOp' = "can_upload"
    /\ rlTrueCount' = IF can_upload(now) /\ rlTrueCount <= MaxCount
                      THEN rlTrueCount + 1 ELSE rlTrueCount
    /\ rlPending' = can_upload(now)
    /\ rlBroken' = (rlBroken \/ rlPending)
    /\ UNCHANGED <<rlOn, rlFile, max_per_day, now, rlRemaining, rlRecorded>>

RecordUpload ==
    /\ rlOn
    /\ UNCHANGED rateOthers
    /\ record_upload_data(now).count <= MaxCount
    /\ rlFile' = write_json(record_upload_data(now))
    /\ rlLastOp' = "record_upload"
    /\ rlRecorded' = rlRecorded + 1
    /\ rlPending' = FALSE
    /\ UNCHANGED <<rlOn, max_per_day, now, rlAnswer, rlRemaining, rlTrueCount, rlBroken>>

Remaining ==
    /\ rlOn
    /\ UNCHANGED rateOthers
    /\ rlRemaining' = remaining(now)
    /\ rlLastOp' = "remaining"
    /\ UNCHANGED <<rlOn, rlFile, max_per_day, now, rlAnswer, rlRecorded, rlTrueCount,
                   rlPending, rlBroken>>

\* Time passes within the calendar day.
Tick ==
    /\ rlOn
    /\ UNCHANGED rateOthers
    /\ now.tick < MaxTick
    /\ now' = [now EXCEPT !.tick = @ + 1]
    /\ UNCHANGED <<rlOn, rlFile, max_per_day, rlLastOp, rlAnswer, rlRemaining,
                   rlRecorded, rlTrueCount, rlPending, rlBroken>>

\* Midnight: the next calendar date starts; the per-date bookkeeping restarts.
NextDay ==
    /\ rlOn
    /\ UNCHANGED rateOthers
    /\ now.day < MaxDay
    /\ now' = [day |-> now.day + 1, tick |-> 0]
    /\ rlLastOp' = "none"
    /\ rlRecorded' = 0
    /\ rlTrueCount' = 0
    /\ rlPending' = FALSE
    /\ rlBroken' = FALSE
    /\ UNCHANGED <<rlOn, rlFile, max_per_day, rlAnswer, rlRemaining>>

RateNext == CanUpload \/ RecordUpload \/ Remaining \/ Tick \/ NextDay

(***************************************************************************)
(* Text: Python str operations used by the gates and by deduplication.     *)
(* Letters are folded over ASCII; the sampled texts hold no other cased    *)
(* letters in upper case.                                                  *)
(***************************************************************************)
UpperLetters == "ABCDEFGHIJKLMNOPQRSTUVWXYZ"
LowerLetters == "abcdefghijklmnopqrstuvwxyz"
DigitChars == "0123456789"

CharAt(s, i) == SubSeq(s, i, i)

CharsOf(s) == {CharAt(s, i) : i \in 1..Len(s)}

LowerMap ==
    [c \in CharsOf(UpperLetters) |->
        CharAt(LowerLetters, CHOOSE i \in 1..Len(UpperLetters) : CharAt(UpperLetters, i) = c)]

\* \w of a str pattern: letters, digits, underscore.
WordChars ==
    CharsOf(UpperLetters) \cup CharsOf(LowerLetters) \cup CharsOf(DigitChars) \cup {"_", "í"}

\* what str.strip() removes and \s matches
SpaceChars == {" ", "\t", "\n"}

LowerChar(c) == IF c \in DOMAIN LowerMap THEN LowerMap[c] ELSE c

\* Characters i..j of s, lowercased (computed by halves).
RECURSIVE LowerFrom(_, _, _)
LowerFrom(s, i, j) ==
    IF i > j THEN ""
    ELSE IF i = j THEN LowerChar(CharAt(s, i))
    ELSE LET m == (i + j) \div 2
         IN  LowerFrom(s, i, m) \o LowerFrom(s, m + 1, j)

\* str.lower()
Lower(s) == LowerFrom(s, 1, Len(s))

RECURSIVE FirstNonSpace(_, _)
FirstNonSpace(s, i) ==
    IF i > Len(s) \/ CharAt(s, i) \notin SpaceChars THEN i ELSE FirstNonSpace(s, i + 1)

RECURSIVE LastNonSpace(_, _)
LastNonSpace(s, i) ==
    IF i < 1 \/ CharAt(s, i) \notin SpaceChars THEN i ELSE LastNonSpace(s, i - 1)

\* str.strip()
Strip(s) == SubSeq(s, FirstNonSpace(s, 1), LastNonSpace(s, Len(s)))

\* Characters i..j of s with each run of whitespace collapsed to one space
\* (computed by halves): a whitespace character that follows another is dropped.
RECURSIVE CollapseFrom(_, _, _)
CollapseFrom(s, i, j) ==
    IF i > j THEN ""
    ELSE IF i = j
         THEN IF CharAt(s, i) \in SpaceChars
              THEN (IF i > 1 /\ CharAt(s, i - 1) \in SpaceChars THEN "" ELSE " ")
              ELSE CharAt(s, i)
    ELSE LET m == (i + j) \div 2
         IN  CollapseFrom(s, i, m) \o CollapseFrom(s, m + 1, j)

\* utils.text.normalize_text: lowercases, trims and collapses internal whitespace.
normalize_text(s) == LET t == Lower(Strip(s)) IN CollapseFrom(t, 1, Len(t))

\* The content fingerprint: normalize(question) and normalize(answer), hashed.
Fingerprint(qa) == <<normalize_text(qa.question), normalize_text(qa.answer)>>

\* "p in s"
Contains(s, p) ==
    \E i \in 1..(Len(s) - Len(p) + 1) : SubSeq(s, i, i + Len(p) - 1) = p

\* s.count(c) for a single character c
Count(s, c) == Cardinality({i \in 1..Len(s) : CharAt(s, i) = c})

(***************************************************************************)
(* The content safety gate of generators/question.py                       *)
(***************************************************************************)
\* _BANNED entries of the form \bword\b
BannedWhole ==
    {"lyrics", "this line", "which song", "what song", "movie quote", "who said",
     "brand slogan", "election", "violence", "nsfw"}

\* _BANNED entries of the form \bword\w*\b
BannedPrefix == {"politic", "terror", "sex", "drug", "weapon"}

\* The pattern p matches at position i of s: a word boundary before it and,
\* for a whole-word pattern, one after it.
MatchAt(s, p, i, whole) ==
    LET e == i + Len(p) - 1
    IN  /\ SubSeq(s, i, e) = p
        /\ (i = 1 \/ CharAt(s, i - 1) \notin WordChars)
        /\ (whole => (e = Len(s) \/ CharAt(s, e + 1) \notin WordChars))

Search(s, p, whole) ==
    \E i \in 1..(Len(s) - Len(p) + 1) : MatchAt(s, p, i, whole)

\* _BANNED_RE.search(s), compiled with re.IGNORECASE
BANNED_RE_search(s) ==
    LET t == Lower(s)
    IN  \/ \E p \in BannedWhole : Search(t, p, TRUE)
        \/ \E p \in BannedPrefix : Search(t, p, FALSE)

MinQuestionLen == 8
MaxQuestionLen == 120
MinAnswerLen == 1
MaxAnswerLen == 60
MaxNewlines == 4

\* Lines 54-62 and 67-69 only: the length and newline rules.
looks_safe_lengths_only(question, answer) ==
    LET q == normalize_text(question)
        a == normalize_text(answer)
    IN  /\ ~(q = "" \/ a = "")
        /\ ~(Len(q) < MinQuestionLen \/ Len(q) > MaxQuestionLen)
        /\ ~(Len(a) < MinAnswerLen \/ Len(a) > MaxAnswerLen)
        /\ ~(Count(question, "\n") > MaxNewlines)

looks_safe(question, answer) ==
    LET q == normalize_text(question)
        a == normalize_text(answer)
    IN  /\ ~(q = "" \/ a = "")
        /\ ~(Len(q) < MinQuestionLen \/ Len(q) > MaxQuestionLen)
        /\ ~(Len(a) < MinAnswerLen \/ Len(a) > MaxAnswerLen)
        /\ ~(Contains(q, "http") \/ Contains(q, "www") \/ Contains(a, "http") \/ Contains(a, "www"))
        /\ ~(BANNED_RE_search(q) \/ BANNED_RE_search(a))
        /\ ~(Count(question, "\n") > MaxNewlines)

\* c repeated n times (computed by halves).
RECURSIVE Repeat(_, _)
Repeat(c, n) ==
    IF n <= 0 THEN ""
    ELSE IF n = 1 THEN c
    ELSE LET h == Repeat(c, n \div 2)
         IN  IF n % 2 = 0 THEN h \o h ELSE h \o h \o c

\* A question of exactly n characters (n >= 9).
QuestionOfLen(n) == "What is " \o Repeat("x", n - 9) \o "?"

\* Question lengths around the limits.
QuestionLens == {9, 119, 120, 121, 150, 151}

\* Arguments _looks_safe is called with.
GateQuestions ==
    {QuestionOfLen(n) : n \in QuestionLens}
    \cup {"", "Why so?", "Why not?", "Hi?",
          "What is the capital of Japan?",
          "Name this song's lyrics?",
          "Who won the ELECTION in 1900?",
          "What is a Weapons depot called?",
          "What is Sussex famous for?",
          "See HTTP://quiz.io for the answer?",
          "Is WWW.quiz.io a quiz site?",
          "One\ntwo\nthree\nfour\nfive\nsix?"}

GateAnswers ==
    {"", "x", "Tokyo", Repeat("a", 60), Repeat("a", 61), "https://a.io", "Www.a.io", "DRUGS"}

GateInit ==
    /\ gtPc = "input"
    /\ gtQuestion \in GateQuestions
    /\ gtAnswer \in GateAnswers
    /\ gtOk = FALSE

GateOff ==
    /\ gtPc = "off"
    /\ gtQuestion = ""
    /\ gtAnswer = ""
    /\ gtOk = FALSE

\* One call _looks_safe(question, answer).
LooksSafe ==
    /\ gtPc = "input"
    /\ UNCHANGED gateOthers
    /\ gtOk' = looks_safe(gtQuestion, gtAnswer)
    /\ gtPc' = "validated"
    /\ UNCHANGED <<gtQuestion, gtAnswer>>

GateNext == LooksSafe


(***************************************************************************)
(* generate_unique_short_spec                                              *)
(***************************************************************************)
LlmAttempts == 6        \* range(1, 7)
BankRetries == 49       \* range(1, 50)

Capitals ==
    {<<"Japan", "Tokyo">>, <<"France", "Paris">>, <<"Canada", "Ottawa">>,
     <<"Brazil", "Brasília">>, <<"Australia", "Canberra">>, <<"Egypt", "Cairo">>,
     <<"Turkey", "Ankara">>, <<"Mexico", "Mexico City">>, <<"Argentina", "Buenos Aires">>,
     <<"South Korea", "Seoul">>, <<"India", "New Delhi">>, <<"Spain", "Madrid">>,
     <<"Italy", "Rome">>, <<"Norway", "Oslo">>, <<"Sweden", "Stockholm">>,
     <<"Finland", "Helsinki">>, <<"Greece", "Athens">>, <<"Portugal", "Lisbon">>,
     <<"Poland", "Warsaw">>, <<"Netherlands", "Amsterdam">>, <<"Belgium", "Brussels">>,
     <<"Switzerland", "Bern">>, <<"Austria", "Vienna">>, <<"Ireland", "Dublin">>,
     <<"Denmark", "Copenhagen">>, <<"China", "Beijing">>, <<"Thailand", "Bangkok">>,
     <<"Vietnam", "Hanoi">>, <<"Indonesia", "Jakarta">>, <<"South Africa", "Pretoria">>}

Elements ==
    {<<"Hydrogen", "H">>, <<"Helium", "He">>, <<"Carbon", "C">>, <<"Oxygen", "O">>,
     <<"Sodium", "Na">>, <<"Potassium", "K">>, <<"Iron", "Fe">>, <<"Gold", "Au">>,
     <<"Silver", "Ag">>, <<"Copper", "Cu">>, <<"Mercury", "Hg">>, <<"Tin", "Sn">>,
     <<"Lead", "Pb">>}

Planets ==
    {<<"largest planet", "Jupiter">>, <<"closest planet to the Sun", "Mercury">>,
     <<"planet known as the Red Planet", "Mars">>,
     <<"planet with the most famous rings", "Saturn">>}

\* Draws of rng.randint(12, 99), rng.randint(3, 9) and rng.randint(3, 12): the
\* ends of each range.
MathX == {12, 99}
MathY == {3, 9}
MathM == {3, 12}

ShortSpec(q, a, cat) == [question |-> q, answer |-> a, category |-> cat]

NoSpec == ShortSpec("", "", "")

\* Every ShortSpec _local_bank(rng) can build (over the sampled math draws).
local_bank ==
    {ShortSpec("What is the capital of " \o c[1] \o "?", c[2], "Geography") : c \in Capitals}
    \cup {ShortSpec("Which element has the chemical symbol '" \o e[2] \o "'?", e[1], "Science") :
            e \in Elements}
    \cup {ShortSpec("Which planet is the " \o pl[1] \o "?", pl[2], "Space") : pl \in Planets}
    \cup {ShortSpec("Solve this in your head: " \o ToString(x) \o " + " \o ToString(y) \o " = ?",
                    ToString(x + y), "Brain Teaser") : x \in MathX, y \in MathY}
    \cup {ShortSpec("Solve this in your head: " \o ToString(x) \o " - " \o ToString(y) \o " = ?",
                    ToString(x - y), "Brain Teaser") : x \in MathX, y \in MathY}
    \cup {ShortSpec("Solve this in your head: " \o ToString(m1) \o " × " \o ToString(m2) \o " = ?",
                    ToString(m1 * m2), "Brain Teaser") : m1 \in MathM, m2 \in MathM}

\* What one llm.generate_json(prompt) call does: it raises, it returns something
\* that is no dict, or it returns an object with these question/answer fields
\* (a missing key reads as "").
LlmReply(kind, exc, q, a) == [kind |-> kind, exc |-> exc, question |-> q, answer |-> a]

LlmReplies ==
    {LlmReply("raise", "ProviderError", "", ""),
     LlmReply("notdict", None, "", ""),
     LlmReply("obj", None, "", ""),
     LlmReply("obj", None, "What is the capital of Japan?", "Tokyo"),
     LlmReply("obj", None, "  What is the  largest ocean on Earth? ", " Pacific\n"),
     LlmReply("obj", None, "Hi?", "Tokyo"),
     LlmReply("obj", None, "Name this song's lyrics?", "x"),
     LlmReply("obj", None, "Find it on WWW.quiz.io: what is 2 + 2?", "4")}

\* Questions a StateStore may already hold when the function is called.
UsedPool ==
    {"What is the capital of Japan?", "what is the largest ocean on earth?",
     "Which planet is the largest planet?"}

\* StateStore.is_used(question)
is_used(question) ==
    normalize_text(question) \in {normalize_text(u) : u \in qUsed}

QInit ==
    /\ qPc = "llm"
    /\ qAttempt = 1
    /\ qBankTry = 0
    /\ qUsed \in SUBSET UsedPool
    /\ qSpec = NoSpec
    /\ qVia = None
    /\ qRaised = None

QOff ==
    /\ qPc = "off"
    /\ qAttempt = 1
    /\ qBankTry = 0
    /\ qUsed = {}
    /\ qSpec = NoSpec
    /\ qVia = None
    /\ qRaised = None

\* Lines 248-251 without the safety check.
candidate_error_unchecked(q, a) ==
    IF is_used(q) THEN "ValueError" ELSE None

\* Lines 248-251: the exception the checks of a candidate raise, if any.
candidate_error(q, a) ==
    IF ~looks_safe(q, a) THEN "ValueError"
    ELSE IF is_used(q) THEN "ValueError"
    ELSE None

\* The exception raised inside the try block of one attempt, None if it returns.
attempt_error(reply) ==
    IF reply.kind = "raise" THEN reply.exc
    ELSE IF reply.kind = "notdict" THEN "AttributeError"
    ELSE candidate_error(Strip(reply.question), Strip(reply.answer))

except_ValueError(exc) == exc = "ValueError"

\* "except Exception as e": what the handler of an attempt catches.
except_Exception(exc) == TRUE

QReturn(spec, via) ==
    /\ qPc' = "returned"
    /\ qSpec' = spec
    /\ qVia' = via
    /\ UNCHANGED <<qAttempt, qBankTry, qUsed, qRaised>>

\* The attempt loop running one pass longer: range(1, 8).
llm_loop_one_more(attempt) == attempt < LlmAttempts + 1

\* "for attempt in range(1, 7)": whether another pass follows this attempt.
llm_loop_continues(attempt) == attempt < LlmAttempts

\* One pass of the attempt loop (lines 234-259).
LlmAttempt(reply) ==
    /\ qPc = "llm"
    /\ UNCHANGED qOthers
    /\ LET exc == attempt_error(reply)
       IN  IF exc = None
           THEN QReturn(ShortSpec(Strip(reply.question), Strip(reply.answer), "General Knowledge"), "llm")
           ELSE IF except_Exception(exc)
                THEN /\ qAttempt' = qAttempt + 1
                     /\ qPc' = IF llm_loop_continues(qAttempt) THEN "llm" ELSE "bank"
                     /\ qBankTry' = IF llm_loop_continues(qAttempt) THEN qBankTry ELSE 1
                     /\ UNCHANGED <<qUsed, qSpec, qVia, qRaised>>
                ELSE /\ qPc' = "raised"
                     /\ qRaised' = exc
                     /\ UNCHANGED <<qAttempt, qBankTry, qUsed, qSpec, qVia>>

\* One pass of the local-bank loop (lines 261-264).
BankDraw(spec) ==
    /\ qPc = "bank"
    /\ UNCHANGED qOthers
    /\ IF looks_safe(spec.question, spec.answer) /\ ~is_used(spec.question)
       THEN QReturn(spec, "bank")
       ELSE /\ qBankTry' = qBankTry + 1
            /\ qPc' = IF qBankTry < BankRetries THEN "bank" ELSE "final"
            /\ UNCHANGED <<qAttempt, qUsed, qSpec, qVia, qRaised>>

\* Line 265: "return _local_bank(rng)".
FinalDraw(spec) ==
    /\ qPc = "final"
    /\ UNCHANGED qOthers
    /\ QReturn(spec, "final")

QNext ==
    \/ \E reply \in LlmReplies : LlmAttempt(reply)
    \/ \E spec \in local_bank : BankDraw(spec)
    \/ \E spec \in local_bank : FinalDraw(spec)


(***************************************************************************)
(* generate_quiz_item                                                      *)
(***************************************************************************)
MaxOrderLen == 2        \* length of cfg.llm_order
max_attempts == 4       \* RetryPolicy(max_attempts=4, ...)

GateMinQuestionLen == 8
GateMaxQuestionLen == 150
GateMinAnswerLen == 1
GateMaxAnswerLen == 60

\* yt_auto.safety.validate_text_is_safe(question, answer).ok: the rules of the
\* content safety gate, in order.
validate_text_is_safe(question, answer) ==
    /\ ~(Len(question) < GateMinQuestionLen \/ Len(question) > GateMaxQuestionLen)
    /\ ~(Len(answer) < GateMinAnswerLen \/ Len(answer) > GateMaxAnswerLen)
    /\ ~(Contains(Lower(question), "http") \/ Contains(Lower(question), "www")
         \/ Contains(Lower(answer), "http") \/ Contains(Lower(answer), "www"))
    /\ ~(BANNED_RE_search(question) \/ BANNED_RE_search(answer))
    /\ ~(Count(question, "\n") > MaxNewlines)

QuizItem(q, a, cat, provider) ==
    [question |-> q, answer |-> a, category |-> cat, provider |-> provider]

NoItem == QuizItem("", "", "", "")

\* Entries cfg.llm_order may hold; each is stripped and lowercased before use.
ProviderNames == {"gemini", "groq", "openrouter", "openai", " Gemini ", "claude"}
KnownProviders == {"gemini", "groq", "openrouter", "openai"}

LlmOrders == UNION {[1..n -> ProviderNames] : n \in 0..MaxOrderLen}

KeySets == {{}, {"gemini", "openrouter"}, {"groq", "openai"}, KnownProviders}

\* Draws of r.randint(12, 99), r.randint(2, 11), r.randint(5, 40): the ends of
\* each range.
FallbackA == {12, 99}
FallbackB == {2, 11}
FallbackC == {5, 40}

GeoPairs ==
    {<<"France", "Paris">>, <<"Japan", "Tokyo">>, <<"Canada", "Ottawa">>,
     <<"Brazil", "Brasília">>, <<"Australia", "Canberra">>, <<"Egypt", "Cairo">>,
     <<"Italy", "Rome">>, <<"Spain", "Madrid">>, <<"Germany", "Berlin">>,
     <<"Mexico", "Mexico City">>}

ScienceFacts ==
    {<<"Which planet is known as the Red Planet?", "Mars">>,
     <<"What gas do plants absorb from the air?", "Carbon dioxide">>,
     <<"What is H2O commonly called?", "Water">>,
     <<"What force pulls objects toward Earth?", "Gravity">>,
     <<"Which star is closest to Earth?", "The Sun">>}

Riddles ==
    {<<"What has keys but can't open locks?", "A piano">>,
     <<"What gets wetter the more it dries?", "A towel">>,
     <<"What has hands but can't clap?", "A clock">>,
     <<"What has a neck but no head?", "A bottle">>}

\* A fallback bank holding an entry the gate rejects.
fallback_item_ungated ==
    {QuizItem("2 + 2?", "4", "Quick Math", "fallback")}

\* Every QuizItem _fallback_item(seed) can build (over the sampled math draws).
fallback_item ==
    {QuizItem("What is " \o ToString(a) \o " × " \o ToString(b) \o " + " \o ToString(c) \o "?",
              ToString(a * b + c), "Quick Math", "fallback") :
        a \in FallbackA, b \in FallbackB, c \in FallbackC}
    \cup {QuizItem("What is the capital of " \o g[1] \o "?", g[2], "Geography", "fallback") :
            g \in GeoPairs}
    \cup {QuizItem(f[1], f[2], "Science", "fallback") : f \in ScienceFacts}
    \cup {QuizItem(r[1], r[2], "Riddle", "fallback") : r \in Riddles}

\* What one provider call does: the HTTP call raises, the text holds no JSON
\* block, or _extract_json yields an object with these fields.
ProviderReplies ==
    {LlmReply("raise", "HTTPError", "", ""),
     LlmReply("raise", "no_json_found", "", ""),
     LlmReply("obj", None, "", ""),
     LlmReply("obj", None, " What is the largest ocean on Earth?\n", " Pacific "),
     LlmReply("obj", None, "Name this song's lyrics?", "x"),
     LlmReply("obj", None, "Hi?", "Tokyo")}

GInit ==
    /\ gPc = "provider"
    /\ gOrder \in LlmOrders
    /\ gKeys \in KeySets
    /\ gAllowPaid \in BOOLEAN
    /\ gProvIdx = 1
    /\ gAttempt = 1
    /\ gCalls = <<>>
    /\ gItem = NoItem
    /\ gRaised = None
    /\ gGood = 0
    /\ gDedup = {}

GOff ==
    /\ gPc = "off"
    /\ gOrder = <<>>
    /\ gKeys = {}
    /\ gAllowPaid = FALSE
    /\ gProvIdx = 1
    /\ gAttempt = 1
    /\ gCalls = <<>>
    /\ gItem = NoItem
    /\ gRaised = None
    /\ gGood = 0
    /\ gDedup = {}

\* provider = provider.strip().lower()
provider_name(p) == Lower(Strip(p))

\* The loop body without its "if not cfg.<provider>_api_key: continue" guards.
provider_called_without_key(p) ==
    /\ p \in KnownProviders
    /\ (p = "openai" => gAllowPaid)

\* The loop body without "if not cfg.allow_paid_providers: continue".
provider_called_paid_unchecked(p) ==
    /\ p \in KnownProviders
    /\ p \in gKeys

\* Whether the loop body calls this provider: one of the four "if provider =="
\* blocks applies and none of its "continue" guards does.
provider_called(p) ==
    /\ p \in KnownProviders
    /\ p \in gKeys
    /\ (p = "openai" => gAllowPaid)

\* _coerce_item(obj, provider)
coerce_item(reply, provider) ==
    QuizItem(Strip(reply.question), Strip(reply.answer), "Quiz", provider)

\* The exception raised inside the try block of one attempt, None if it returns.
provider_attempt_error(reply) ==
    IF reply.kind = "raise" THEN reply.exc
    ELSE IF ~validate_text_is_safe(coerce_item(reply, "").question, coerce_item(reply, "").answer)
         THEN "unsafe_content_from_llm"
         ELSE None

\* A provider call that did not fail: it produced an object whose question and
\* answer pass the content safety gate.
reply_is_good(reply) ==
    /\ reply.kind = "obj"
    /\ validate_text_is_safe(Strip(reply.question), Strip(reply.answer))

\* "except Exception as e" of the provider attempt loops.
attempt_except_Exception(exc) == TRUE

\* Top of "for provider in cfg.llm_order": enter the provider's attempt loop, or
\* move on when no block applies or a "continue" guard does.
NextProvider ==
    /\ gPc = "provider"
    /\ UNCHANGED gOthers
    /\ gProvIdx <= Len(gOrder)
    /\ IF provider_called(provider_name(gOrder[gProvIdx]))
       THEN /\ gPc' = "attempt"
            /\ gAttempt' = 1
            /\ UNCHANGED gProvIdx
       ELSE /\ gProvIdx' = gProvIdx + 1
            /\ UNCHANGED <<gPc, gAttempt>>
    /\ UNCHANGED <<gOrder, gKeys, gAllowPaid, gCalls, gItem, gRaised, gGood, gDedup>>

\* One attempt with the current provider.
ProviderAttempt(reply) ==
    /\ gPc = "attempt"
    /\ UNCHANGED gOthers
    /\ gCalls' = Append(gCalls, provider_name(gOrder[gProvIdx]))
    /\ LET exc == provider_attempt_error(reply)
       IN  IF exc = None
           THEN /\ gPc' = "returned"
                /\ gItem' = coerce_item(reply, provider_name(gOrder[gProvIdx]))
                /\ UNCHANGED <<gProvIdx, gAttempt, gRaised>>
           ELSE IF attempt_except_Exception(exc)
                THEN /\ IF gAttempt < max_attempts
                        THEN /\ gAttempt' = gAttempt + 1
                             /\ UNCHANGED <<gPc, gProvIdx>>
                        ELSE /\ gPc' = "provider"
                             /\ gProvIdx' = gProvIdx + 1
                             /\ gAttempt' = 1
                     /\ UNCHANGED <<gItem, gRaised>>
                ELSE /\ gPc' = "raised"
                     /\ gRaised' = exc
                     /\ UNCHANGED <<gProvIdx, gAttempt, gItem>>
    /\ gGood' = IF reply_is_good(reply) THEN gGood + 1 ELSE gGood
    /\ UNCHANGED <<gOrder, gKeys, gAllowPaid, gDedup>>

\* After the loop: "return _fallback_item(seed)".
FallbackReturn(item) ==
    /\ gPc = "provider"
    /\ UNCHANGED gOthers
    /\ gProvIdx > Len(gOrder)
    /\ gPc' = "returned"
    /\ gItem' = item
    /\ UNCHANGED <<gOrder, gKeys, gAllowPaid, gProvIdx, gAttempt, gCalls, gRaised,
                   gGood, gDedup>>

\* The orchestrator's Generate step after next_item: DedupStore.record of the
\* returned item's fingerprint.
RecordItem ==
    /\ gPc = "returned"
    /\ UNCHANGED gOthers
    /\ gPc' = "recorded"
    /\ gDedup' = gDedup \cup {Fingerprint(gItem)}
    /\ UNCHANGED <<gOrder, gKeys, gAllowPaid, gProvIdx, gAttempt, gCalls, gItem, gRaised, gGood>>

GNext ==
    \/ NextProvider
    \/ \E reply \in ProviderReplies : ProviderAttempt(reply)
    \/ \E item \in fallback_item : FallbackReturn(item)
    \/ RecordItem


(***************************************************************************)
(* YouTubeShortsAutomation.run_daily_automation                            *)
(***************************************************************************)
MaxRuns == 2             \* invocations on one calendar date
ShortsPerRun == 4        \* range(4)
MinShortsForLong == 2    \* len(uploaded_shorts) >= 2
MinShortsToCompile == 4  \* compile_long_video: len(shorts_paths) < 4

DInit ==
    /\ dPc = "idle"
    /\ dEnvOk \in BOOLEAN
    /\ dRun = 0
    /\ dI = 0
    /\ dUploaded = 0
    /\ dFailed = 0
    /\ dLong = "none"
    /\ dResult = FALSE
    /\ dPublishedToday = 0

DOff ==
    /\ dPc = "off"
    /\ dEnvOk = FALSE
    /\ dRun = 0
    /\ dI = 0
    /\ dUploaded = 0
    /\ dFailed = 0
    /\ dLong = "none"
    /\ dResult = FALSE
    /\ dPublishedToday = 0

\* run_daily_automation is entered: validate_environment, uploaded_shorts = [].
StartRun ==
    /\ dPc \in {"idle", "done"}
    /\ UNCHANGED dOthers
    /\ dRun < MaxRuns
    /\ dRun' = dRun + 1
    /\ dI' = 0
    /\ dUploaded' = 0
    /\ dFailed' = 0
    /\ dLong' = "none"
    /\ IF dEnvOk
       THEN dPc' = "question" /\ UNCHANGED dResult
       ELSE dPc' = "done" /\ dResult' = FALSE
    /\ UNCHANGED <<dEnvOk, dPublishedToday>>

\* "continue" / end of the loop body: the next slot, or the code after the loop.
SlotEnds(uploaded) ==
    /\ dI' = dI + 1
    /\ dPc' = IF dI + 1 < ShortsPerRun THEN "question" ELSE "finish"
    /\ dFailed' = IF uploaded THEN dFailed ELSE dFailed + 1

\* question_data = self.generate_question(category)
GenerateQuestion(ok) ==
    /\ dPc = "question"
    /\ UNCHANGED dOthers
    /\ IF ok
       THEN dPc' = "video" /\ UNCHANGED <<dI, dFailed>>
       ELSE SlotEnds(FALSE)
    /\ UNCHANGED <<dEnvOk, dRun, dUploaded, dLong, dResult, dPublishedToday>>

\* video_path = self.create_short_video(question_data, i+1)
CreateShortVideo(ok) ==
    /\ dPc = "video"
    /\ UNCHANGED dOthers
    /\ IF ok
       THEN dPc' = "upload" /\ UNCHANGED <<dI, dFailed>>
       ELSE SlotEnds(FALSE)
    /\ UNCHANGED <<dEnvOk, dRun, dUploaded, dLong, dResult, dPublishedToday>>

\* upload_result = self.upload_short(video_path, question_data)
UploadShort(ok) ==
    /\ dPc = "upload"
    /\ UNCHANGED dOthers
    /\ SlotEnds(ok)
    /\ dUploaded' = IF ok THEN dUploaded + 1 ELSE dUploaded
    /\ dPublishedToday' = IF ok THEN dPublishedToday + 1 ELSE dPublishedToday
    /\ UNCHANGED <<dEnvOk, dRun, dLong, dResult>>

\* upload_long_video(uploaded_shorts): compile_long_video, then the upload.
long_video(n, compiled) ==
    IF n < MinShortsToCompile THEN "not_compiled"
    ELSE IF compiled THEN "upload_tried" ELSE "compile_failed"

\* After the loop: the summary, the long video, the return value.
FinishRun(compiled) ==
    /\ dPc = "finish"
    /\ UNCHANGED dOthers
    /\ dLong' = IF dUploaded >= MinShortsForLong THEN long_video(dUploaded, compiled) ELSE "none"
    /\ dResult' = (dUploaded > 0)
    /\ dPc' = "done"
    /\ UNCHANGED <<dEnvOk, dRun, dI, dUploaded, dFailed, dPublishedToday>>

DNext ==
    \/ StartRun
    \/ \E ok \in BOOLEAN : GenerateQuestion(ok)
    \/ \E ok \in BOOLEAN : CreateShortVideo(ok)
    \/ \E ok \in BOOLEAN : UploadShort(ok)
    \/ \E compiled \in BOOLEAN : FinishRun(compiled)


(***************************************************************************)
(* scripts/main.py: main, process_shorts, generate_unique_question         *)
(***************************************************************************)
MaxScriptRuns == 2      \* invocations of main()
MaxScriptDay == 2       \* calendar dates covered
max_attempts_unique == 10   \* generate_unique_question: max_attempts = 10
ShortsPerDay == 4       \* process_shorts: range(4)

QA(q, a) == [question |-> q, answer |-> a]

NoQA == QA("", "")

\* What generate_question_with_fallback() may return.
QAPool ==
    {QA("What is the capital of Australia?", "Canberra"),
     QA("what is the capital of  australia?", "canberra"),
     QA("How many players are on a soccer team?", "11"),
     QA("Which planet is the Red Planet?", "Mars")}

NoHistoryFile == [questions |-> <<>>, last_run |-> -1]

\* A history file holding only a strict prefix of a JSON text: what is on disk
\* when the process dies between open(history_file, 'w') and the end of
\* json.dump.
TornHistoryFile == [questions |-> <<>>, last_run |-> -2]
EmptyHistory == [questions |-> <<>>, last_run |-> NoDate]

\* load_history()
load_history == IF sFile = NoHistoryFile THEN EmptyHistory ELSE sFile

\* is_duplicate(question, history)
is_duplicate(question, history) ==
    \E k \in 1..Len(history.questions) : history.questions[k].question = question

SInit ==
    /\ sPc = "idle"
    /\ sFile = NoHistoryFile
    /\ sHistory = EmptyHistory
    /\ sDay = 1
    /\ sToday = NoDate
    /\ sRun = 0
    /\ sI = 0
    /\ sAttempt = 0
    /\ sCur = NoQA
    /\ sShorts = <<>>
    /\ sUp = 0
    /\ sError = None
    /\ sAccepted = {}
    /\ sDupAccepted = FALSE
    /\ sUploaded = {}

SOff ==
    /\ sPc = "off"
    /\ sFile = NoHistoryFile
    /\ sHistory = EmptyHistory
    /\ sDay = 1
    /\ sToday = NoDate
    /\ sRun = 0
    /\ sI = 0
    /\ sAttempt = 0
    /\ sCur = NoQA
    /\ sShorts = <<>>
    /\ sUp = 0
    /\ sError = None
    /\ sAccepted = {}
    /\ sDupAccepted = FALSE
    /\ sUploaded = {}

\* The process ends: its memory is gone.
ProcessExit ==
    /\ sHistory' = EmptyHistory
    /\ sToday' = NoDate
    /\ sI' = 0
    /\ sAttempt' = 0
    /\ sCur' = NoQA
    /\ sShorts' = <<>>
    /\ sUp' = 0

\* An exception handler that logs the exception and lets main() return.
SFailLogged(exc) ==
    /\ sPc' = "done"
    /\ sError' = exc
    /\ ProcessExit

\* An exception reaches "except Exception as e: ... raise" of main().
SFail(exc) ==
    /\ sPc' = "failed"
    /\ sError' = exc
    /\ ProcessExit

\* main() without the test of line 91: it never skips.
ran_today_ignored(history, today) == FALSE

\* history.get('last_run') == today
ran_today(history, today) == history.last_run = today

\* main() up to process_shorts: load the history, skip when it ran today.
StartMain ==
    /\ sPc \in {"idle", "done", "failed"}
    /\ UNCHANGED sOthers
    /\ sRun < MaxScriptRuns
    /\ sRun' = sRun + 1
    /\ IF sFile = TornHistoryFile
       THEN SFail("JSONDecodeError")
       ELSE /\ sError' = None
            /\ IF ran_today(load_history, sDay)
               THEN sPc' = "done" /\ ProcessExit
               ELSE /\ sPc' = "generate"
                    /\ sHistory' = load_history
                    /\ sToday' = sDay
                    /\ sI' = 0
                    /\ sAttempt' = 0
                    /\ sCur' = NoQA
                    /\ sShorts' = <<>>
                    /\ sUp' = 0
    /\ UNCHANGED <<sFile, sDay, sAccepted, sDupAccepted, sUploaded>>

\* One attempt of generate_unique_question whose provider chain raises.
GenerateFails ==
    /\ sPc = "generate"
    /\ UNCHANGED sOthers
    /\ SFail("AIFailure")
    /\ UNCHANGED <<sFile, sDay, sRun, sAccepted, sDupAccepted, sUploaded>>

\* One attempt of generate_unique_question that gets a result.
GenerateAttempt(result) ==
    /\ sPc = "generate"
    /\ UNCHANGED sOthers
    /\ LET question == Strip(result.question)
           answer == Strip(result.answer)
       IN  IF ~is_duplicate(question, sHistory)
           THEN /\ sCur' = QA(question, answer)
                /\ sPc' = "tts"
                /\ sAccepted' = sAccepted \cup {Fingerprint(QA(question, answer))}
                /\ sDupAccepted' = (sDupAccepted \/ Fingerprint(QA(question, answer)) \in sAccepted)
                /\ UNCHANGED <<sHistory, sToday, sI, sAttempt, sShorts, sUp, sError>>
           ELSE /\ IF sAttempt + 1 < max_attempts_unique
                   THEN /\ sAttempt' = sAttempt + 1
                        /\ UNCHANGED <<sPc, sHistory, sToday, sI, sCur, sShorts, sUp, sError>>
                   ELSE SFail("Failed to generate unique question")
                /\ UNCHANGED <<sAccepted, sDupAccepted>>
    /\ UNCHANGED <<sFile, sDay, sRun, sUploaded>>

\* generate_tts_with_fallback(short_data['question'], tts_path)
GenerateTts(ok) ==
    /\ sPc = "tts"
    /\ UNCHANGED sOthers
    /\ IF ok
       THEN /\ sPc' = "video"
            /\ UNCHANGED <<sHistory, sToday, sI, sAttempt, sCur, sShorts, sUp, sError>>
       ELSE SFail("AIFailure")
    /\ UNCHANGED <<sFile, sDay, sRun, sAccepted, sDupAccepted, sUploaded>>

\* create_short_video(...), then shorts.append and history['questions'].append.
CreateVideo(ok) ==
    /\ sPc = "video"
    /\ UNCHANGED sOthers
    /\ IF ok
       THEN /\ sShorts' = Append(sShorts, sCur.question)
            /\ sHistory' = [sHistory EXCEPT !.questions = Append(@, sCur)]
            /\ sI' = sI + 1
            /\ sAttempt' = 0
            /\ sPc' = IF sI + 1 < ShortsPerDay THEN "generate" ELSE "compile"
            /\ UNCHANGED <<sToday, sCur, sUp, sError>>
       ELSE SFail("VideoError")
    /\ UNCHANGED <<sFile, sDay, sRun, sAccepted, sDupAccepted, sUploaded>>

\* create_compilation_video(...)
CreateCompilation(ok) ==
    /\ sPc = "compile"
    /\ UNCHANGED sOthers
    /\ IF ok
       THEN /\ sPc' = "auth"
            /\ UNCHANGED <<sHistory, sToday, sI, sAttempt, sCur, sShorts, sUp, sError>>
       ELSE SFail("VideoError")
    /\ UNCHANGED <<sFile, sDay, sRun, sAccepted, sDupAccepted, sUploaded>>

\* youtube = get_authenticated_service()
Authenticate(ok) ==
    /\ sPc = "auth"
    /\ UNCHANGED sOthers
    /\ IF ok
       THEN /\ sPc' = "upload"
            /\ UNCHANGED <<sHistory, sToday, sI, sAttempt, sCur, sShorts, sUp, sError>>
       ELSE SFail("AuthError")
    /\ UNCHANGED <<sFile, sDay, sRun, sAccepted, sDupAccepted, sUploaded>>

\* One pass of "for short in shorts: upload_to_youtube(...)".
UploadOneShort(ok) ==
    /\ sPc = "upload"
    /\ UNCHANGED sOthers
    /\ IF ok
       THEN /\ sUp' = sUp + 1
            /\ sUploaded' = sUploaded \cup {sShorts[sUp + 1]}
            /\ sPc' = IF sUp + 1 < Len(sShorts) THEN "upload" ELSE "upload_compilation"
            /\ UNCHANGED <<sHistory, sToday, sI, sAttempt, sCur, sShorts, sError>>
       ELSE SFail("UploadError") /\ UNCHANGED sUploaded
    /\ UNCHANGED <<sFile, sDay, sRun, sAccepted, sDupAccepted>>

\* upload_to_youtube(youtube, compilation_path, ...)
UploadCompilation(ok) ==
    /\ sPc = "upload_compilation"
    /\ UNCHANGED sOthers
    /\ IF ok
       THEN /\ sPc' = "save"
            /\ UNCHANGED <<sHistory, sToday, sI, sAttempt, sCur, sShorts, sUp, sError>>
       ELSE SFail("UploadError")
    /\ UNCHANGED <<sFile, sDay, sRun, sAccepted, sDupAccepted, sUploaded>>

\* history['last_run'] = today; save_history(history); main() returns.
SaveHistory(ok) ==
    /\ sPc = "save"
    /\ UNCHANGED sOthers
    /\ IF ok
       THEN /\ sFile' = [sHistory EXCEPT !.last_run = sToday]
            /\ sPc' = "done"
            /\ ProcessExit
            /\ UNCHANGED sError
       ELSE /\ SFail("OSError")
            /\ UNCHANGED sFile
    /\ UNCHANGED <<sDay, sRun, sAccepted, sDupAccepted, sUploaded>>

\* The process is killed inside save_history, after open(..., 'w') truncated
\* the file and before json.dump wrote all of it.
KilledDuringSave ==
    /\ sPc = "save"
    /\ UNCHANGED sOthers
    /\ sFile' = TornHistoryFile
    /\ sPc' = "failed"
    /\ sError' = "killed"
    /\ ProcessExit
    /\ UNCHANGED <<sDay, sRun, sAccepted, sDupAccepted, sUploaded>>

\* Midnight UTC passes between two runs.
ScriptsNextDay ==
    /\ sPc \in {"idle", "done", "failed"}
    /\ UNCHANGED sOthers
    /\ sDay < MaxScriptDay
    /\ sDay' = sDay + 1
    /\ UNCHANGED <<sPc, sFile, sHistory, sToday, sRun, sI, sAttempt, sCur, sShorts, sUp,
                   sError, sAccepted, sDupAccepted, sUploaded>>

SNext ==
    \/ StartMain
    \/ GenerateFails
    \/ \E result \in QAPool : GenerateAttempt(result)
    \/ \E ok \in BOOLEAN : GenerateTts(ok)
    \/ \E ok \in BOOLEAN : CreateVideo(ok)
    \/ \E ok \in BOOLEAN : CreateCompilation(ok)
    \/ \E ok \in BOOLEAN : Authenticate(ok)
    \/ \E ok \in BOOLEAN : UploadOneShort(ok)
    \/ \E ok \in BOOLEAN : UploadCompilation(ok)
    \/ \E ok \in BOOLEAN : SaveHistory(ok)
    \/ KilledDuringSave
    \/ ScriptsNextDay


(***************************************************************************)
(* build_short (yt_auto/video.py): the timing values and the countdown     *)
(* overlay.  Durations are held in ticks of 0.1 ms; the filter strings     *)
(* carry them formatted to three decimals, that is to whole milliseconds.  *)
(***************************************************************************)
TicksPerSecond == 10000
TicksPerMilli == 10
FrameStep == 2500       \* a frame is sampled every 250 ms
MinTotal == 30000       \* 3.0

NothingShown == -1

\* What ffprobe_duration_seconds may return: float(p.stdout), any number.
AudioDurs == {-5000, 0, 4004, 10000, 25000, 43214}

CountdownSeconds == {0, 1, 3}
RevealSeconds == {0, 1, 2}

Max2(a, b) == IF a >= b THEN a ELSE b

\* ceil(x / d) for d > 0
CeilDiv(x, d) == -((-x) \div d)

\* f"{x:.3f}": x rounded to the nearest millisecond.
Format3(x) == ((x + (TicksPerMilli \div 2)) \div TicksPerMilli) * TicksPerMilli

NoPlan == [audio_dur |-> 0, total_dur |-> 0, answer_start |-> 0, answer_end |-> 0]

\* Lines 42-48 of build_short.
timing_values(audio_dur, countdown, reveal) ==
    [audio_dur |-> audio_dur,
     total_dur |-> Max2(MinTotal, audio_dur + countdown + reveal),
     answer_start |-> audio_dur + countdown,
     answer_end |-> (audio_dur + countdown) + reveal]

\* enable=between(t, {audio_dur:.3f}, {audio_dur + countdown:.3f})
countdown_enabled(t) ==
    /\ Format3(tAudioDur) <= t
    /\ t <= Format3(tAudioDur + tCountdown * TicksPerSecond)

\* text=%{eif:max(0, ceil({cfg.countdown_seconds}-(t-{audio_dur:.3f}))):d}
countdown_text(t) ==
    Max2(0, CeilDiv(tCountdown * TicksPerSecond - (t - Format3(tAudioDur)), TicksPerSecond))

\* enable=lt(t, {answer_start:.3f}): the question overlay
question_enabled(t) == t < Format3(tPlan.answer_start)

\* enable=between(t, {answer_start:.3f}, {answer_end:.3f}): the answer overlay
answer_enabled(t) ==
    /\ Format3(tPlan.answer_start) <= t
    /\ t <= Format3(tPlan.answer_end)

\* What the second drawtext filter draws on the frame at time t.
drawn_countdown(t) == IF countdown_enabled(t) THEN countdown_text(t) ELSE NothingShown

TInit ==
    /\ tPc = "input"
    /\ tAudioDur \in AudioDurs
    /\ tCountdown \in CountdownSeconds
    /\ tReveal \in RevealSeconds
    /\ tPlan = NoPlan
    /\ tT = 0
    /\ tShown = NothingShown
    /\ tPrev = NothingShown

TOff ==
    /\ tPc = "off"
    /\ tAudioDur = 0
    /\ tCountdown = 0
    /\ tReveal = 0
    /\ tPlan = NoPlan
    /\ tT = 0
    /\ tShown = NothingShown
    /\ tPrev = NothingShown

\* build_short up to the filter strings: the timing values.
PlanShort ==
    /\ tPc = "input"
    /\ UNCHANGED tOthers
    /\ tPlan' = timing_values(tAudioDur, tCountdown * TicksPerSecond, tReveal * TicksPerSecond)
    /\ tPc' = "planned"
    /\ UNCHANGED <<tAudioDur, tCountdown, tReveal, tT, tShown, tPrev>>

\* The first frame at or after the start of the countdown window (t >= 0).
first_frame == Max2(0, Format3(tAudioDur))

\* ffmpeg starts drawing: the first frame of the countdown window.
RenderStart ==
    /\ tPc = "planned"
    /\ UNCHANGED tOthers
    /\ tPc' = "render"
    /\ tT' = first_frame
    /\ tShown' = drawn_countdown(first_frame)
    /\ tPrev' = NothingShown
    /\ UNCHANGED <<tAudioDur, tCountdown, tReveal, tPlan>>

\* The next sampled frame, up to the end of the countdown window.
RenderFrame ==
    /\ tPc = "render"
    /\ UNCHANGED tOthers
    /\ tT + FrameStep <= Format3(tAudioDur + tCountdown * TicksPerSecond)
    /\ tT' = tT + FrameStep
    /\ tShown' = drawn_countdown(tT + FrameStep)
    /\ tPrev' = tShown
    /\ UNCHANGED <<tPc, tAudioDur, tCountdown, tReveal, tPlan>>

\* _run(cmd) raises: ffmpeg exits with a non-zero code.
RenderFails ==
    /\ tPc = "planned"
    /\ UNCHANGED tOthers
    /\ tPc' = "failed"
    /\ UNCHANGED <<tAudioDur, tCountdown, tReveal, tPlan, tT, tShown, tPrev>>

TNext == PlanShort \/ RenderStart \/ RenderFrame \/ RenderFails

(***************************************************************************)
(* compose_short (pipeline/media.py): the timer clips.  Times are held in  *)
(* half seconds.                                                           *)
(***************************************************************************)
HalvesPerSecond == 2

QuestionDurations == {1, 3, 10}

\* The timer clip visible at time t: clip "second" is set_start(second),
\* set_duration(1), visible for second <= t < second + 1.
timer_shown(t) ==
    LET visible == {second \in 0..(mQuestionDuration - 1) :
                      /\ second * HalvesPerSecond <= t
                      /\ t < (second + 1) * HalvesPerSecond}
    IN  IF visible = {} THEN NothingShown
        ELSE mQuestionDuration - (CHOOSE second \in visible : TRUE)

MInit ==
    /\ mPc = "input"
    /\ mQuestionDuration \in QuestionDurations
    /\ mT = 0
    /\ mShown = NothingShown
    /\ mPrev = NothingShown

MOff ==
    /\ mPc = "off"
    /\ mQuestionDuration = 0
    /\ mT = 0
    /\ mShown = NothingShown
    /\ mPrev = NothingShown

\* write_videofile starts: the frame at t = 0.
ComposeStart ==
    /\ mPc = "input"
    /\ UNCHANGED mOthers
    /\ mPc' = "render"
    /\ mT' = 0
    /\ mShown' = timer_shown(0)
    /\ mPrev' = NothingShown
    /\ UNCHANGED mQuestionDuration

\* The next sampled frame, up to the end of the question phase.
ComposeFrame ==
    /\ mPc = "render"
    /\ UNCHANGED mOthers
    /\ mT + 1 <= mQuestionDuration * HalvesPerSecond
    /\ mT' = mT + 1
    /\ mShown' = timer_shown(mT + 1)
    /\ mPrev' = mShown
    /\ UNCHANGED <<mPc, mQuestionDuration>>

MNext == ComposeStart \/ ComposeFrame

(***************************************************************************)
(* YouTubeUploader.upload_video (yt_auto/youtube_uploader.py)              *)
(***************************************************************************)
MaxOauth == 2
MaxChunks == 2
upload_max_attempts == 5

\* What one req.next_chunk() call can do: report progress without a response,
\* deliver a response with or without a video id, or raise.
ChunkOutcomes == {"incomplete", "id", "no_id", "HttpError", "Exception"}

UInit ==
    /\ uPc = "service"
    /\ uLen \in 1..MaxOauth
    /\ uOauth = 1
    /\ uAttempt = 0
    /\ uChunks = 0
    /\ uMade = 0
    /\ uIds = 0
    /\ uResult = "none"

UOff ==
    /\ uPc = "off"
    /\ uLen = 0
    /\ uOauth = 0
    /\ uAttempt = 0
    /\ uChunks = 0
    /\ uMade = 0
    /\ uIds = 0
    /\ uResult = "none"

\* The loops with one attempt more per credential: range(1, max_attempts + 2).
next_attempt_one_more(oauth, attempt, n) ==
    IF attempt < upload_max_attempts + 1
    THEN [pc |-> "chunk", oauth |-> oauth, attempt |-> attempt + 1]
    ELSE IF oauth < n
         THEN [pc |-> "service", oauth |-> oauth + 1, attempt |-> 0]
         ELSE [pc |-> "raised", oauth |-> oauth, attempt |-> attempt]

\* Where the two for loops go after an attempt was caught by an except clause:
\* the next attempt, the next credential, or the raise after the loops.
next_attempt(oauth, attempt, n) ==
    IF attempt < upload_max_attempts
    THEN [pc |-> "chunk", oauth |-> oauth, attempt |-> attempt + 1]
    ELSE IF oauth < n
         THEN [pc |-> "service", oauth |-> oauth + 1, attempt |-> 0]
         ELSE [pc |-> "raised", oauth |-> oauth, attempt |-> attempt]

\* service = self._service_for(oauth), outside the try: a failed token refresh
\* leaves upload_video with that exception; otherwise attempt 1 starts.
ServiceFor(ok) ==
    /\ uPc = "service"
    /\ UNCHANGED uOthers
    /\ IF ok
       THEN /\ uPc' = "chunk"
            /\ uAttempt' = 1
            /\ uChunks' = 0
            /\ uMade' = uMade + 1
            /\ UNCHANGED <<uLen, uOauth, uIds, uResult>>
       ELSE /\ uPc' = "raised"
            /\ uResult' = "RefreshError"
            /\ UNCHANGED <<uLen, uOauth, uAttempt, uChunks, uMade, uIds>>

\* One req.next_chunk() call of "while resp is None", with what follows it: the
\* return, or the except clause, the sleep and the step of the loops.
NextChunk(outcome) ==
    /\ uPc = "chunk"
    /\ UNCHANGED uOthers
    /\ CASE outcome = "incomplete" ->
              /\ uChunks < MaxChunks
              /\ uChunks' = uChunks + 1
              /\ UNCHANGED <<uPc, uLen, uOauth, uAttempt, uMade, uIds, uResult>>
         [] outcome = "id" ->
              /\ uPc' = "returned"
              /\ uResult' = "UploadResult"
              /\ uIds' = uIds + 1
              /\ UNCHANGED <<uLen, uOauth, uAttempt, uChunks, uMade>>
         [] OTHER ->
              LET next == next_attempt(uOauth, uAttempt, uLen)
              IN  /\ uPc' = next.pc
                  /\ uOauth' = next.oauth
                  /\ uAttempt' = next.attempt
                  /\ uChunks' = 0
                  /\ uMade' = IF next.pc = "chunk" THEN uMade + 1 ELSE uMade
                  /\ uResult' = IF next.pc = "raised" THEN "youtube_upload_failed"
                                ELSE uResult
                  /\ UNCHANGED <<uLen, uIds>>

UNext ==
    \/ \E ok \in BOOLEAN : ServiceFor(ok)
    \/ \E outcome \in ChunkOutcomes : NextChunk(outcome)

(***************************************************************************)
(* create_short_video (src/main.py, src/video_generator.py)                *)
(***************************************************************************)
countdown_duration == 10
answer_duration == 2
DefaultAudioDuration == 5
QuestionAudioDurations == {3, DefaultAudioDuration, 8}

Clip(phase, duration) == [phase |-> phase, duration |-> duration]

RECURSIVE SumDurations(_)
SumDurations(clips) ==
    IF clips = <<>> THEN 0 ELSE Head(clips).duration + SumDurations(Tail(clips))

VInit ==
    /\ vPc = "question_audio"
    /\ vQuestionDuration = 0
    /\ vCountdownFile \in BOOLEAN
    /\ vClips = <<>>
    /\ vDuration = 0
    /\ vCreated = "none"

VOff ==
    /\ vPc = "off"
    /\ vQuestionDuration = 0
    /\ vCountdownFile = FALSE
    /\ vClips = <<>>
    /\ vDuration = 0
    /\ vCreated = "none"

\* clips (parts 1 to 3 of VideoGenerator.create_short_video)
short_clips(question_duration, countdown_images, countdown_file, answer_reveal) ==
    <<Clip("question", question_duration)>>
    \o (IF countdown_images /\ countdown_file
        THEN <<Clip("countdown", countdown_duration)>> ELSE <<>>)
    \o (IF answer_reveal THEN <<Clip("answer", answer_duration)>> ELSE <<>>)

\* Step 1 of QuizAutomation.create_short_video: the question audio.
GenerateQuestionAudio(ok, duration) ==
    /\ vPc = "question_audio"
    /\ UNCHANGED vOthers
    /\ IF ok
       THEN /\ vPc' = "countdown_audio"
            /\ vQuestionDuration' = duration
            /\ UNCHANGED <<vCountdownFile, vClips, vDuration, vCreated>>
       ELSE /\ vPc' = "done"
            /\ vCreated' = "None"
            /\ UNCHANGED <<vQuestionDuration, vCountdownFile, vClips, vDuration>>

\* Step 2: the countdown audio; a failure is logged and the function goes on.
GenerateCountdownAudio(ok) ==
    /\ vPc = "countdown_audio"
    /\ UNCHANGED vOthers
    /\ vCountdownFile' = (ok \/ vCountdownFile)
    /\ vPc' = "video"
    /\ UNCHANGED <<vQuestionDuration, vClips, vDuration, vCreated>>

\* Step 3: VideoGenerator.create_short_video and the test of its result.
CreateShort(background, overlay, countdown_images, answer_reveal, written) ==
    /\ vPc = "video"
    /\ UNCHANGED vOthers
    /\ vPc' = "done"
    /\ IF background /\ overlay
       THEN LET clips == short_clips(vQuestionDuration, countdown_images,
                                     vCountdownFile, answer_reveal)
            IN  /\ vClips' = clips
                /\ vDuration' = SumDurations(clips)
                /\ vCreated' = IF written THEN "output_video" ELSE "None"
       ELSE /\ vCreated' = "None"
            /\ UNCHANGED <<vClips, vDuration>>
    /\ UNCHANGED <<vQuestionDuration, vCountdownFile>>

VNext ==
    \/ \E ok \in BOOLEAN, duration \in QuestionAudioDurations :
          GenerateQuestionAudio(ok, duration)
    \/ \E ok \in BOOLEAN : GenerateCountdownAudio(ok)
    \/ \E background, overlay, countdown_images, answer_reveal, written \in BOOLEAN :
          CreateShort(background, overlay, countdown_images, answer_reveal, written)


(***************************************************************************)
(* upload_to_youtube (scripts/youtube_utils.py)                            *)
(***************************************************************************)
MAX_RETRIES == 3

YInit ==
    /\ yPc = "start"
    /\ yAttempt = 0
    /\ ySlept = 0
    /\ yResult = "none"

YOff ==
    /\ yPc = "off"
    /\ yAttempt = 0
    /\ ySlept = 0
    /\ yResult = "none"

\* The except clause without its else branch: it sleeps after every failure.
sleeps_after_failure_always(attempt) == TRUE

\* "if attempt < MAX_RETRIES - 1": sleep and go on; otherwise re-raise.
sleeps_after_failure(attempt) == attempt < MAX_RETRIES - 1

\* Lines 40-41: the file must exist before the first attempt.
CheckFile(exists) ==
    /\ yPc = "start"
    /\ UNCHANGED yOthers
    /\ IF exists
       THEN yPc' = "attempt" /\ UNCHANGED yResult
       ELSE yPc' = "raised" /\ yResult' = "FileNotFoundError"
    /\ UNCHANGED <<yAttempt, ySlept>>

\* One pass of "for attempt in range(MAX_RETRIES)": the upload, the test of the
\* response and the except clause.
UploadAttempt(outcome) ==
    /\ yPc = "attempt"
    /\ UNCHANGED yOthers
    /\ IF outcome = "id"
       THEN /\ yPc' = "returned"
            /\ yResult' = "video_id"
            /\ UNCHANGED <<yAttempt, ySlept>>
       ELSE IF sleeps_after_failure(yAttempt)
            THEN /\ ySlept' = ySlept + 1
                 /\ IF yAttempt + 1 < MAX_RETRIES
                    THEN /\ yAttempt' = yAttempt + 1
                         /\ UNCHANGED <<yPc, yResult>>
                    ELSE /\ yPc' = "returned"
                         /\ yResult' = "None"
                         /\ UNCHANGED yAttempt
            ELSE /\ yPc' = "raised"
                 /\ yResult' = IF outcome = "no_id" THEN "ValueError" ELSE outcome
                 /\ UNCHANGED <<yAttempt, ySlept>>

YNext ==
    \/ \E exists \in BOOLEAN : CheckFile(exists)
    \/ \E outcome \in {"id", "no_id", "HttpError"} : UploadAttempt(outcome)

(***************************************************************************)
(* YouTubeShortsAutomation.generate_question (src/main.py) with            *)
(* QuestionGenerator.generate_with_model (src/question_generator.py)       *)
(***************************************************************************)
ModelNames == {"gemini", "groq", "openai"}
FallbackOrders ==
    {<<"gemini", "groq", "openai">>, <<"openai", "gemini", "groq">>, <<"groq", "gemini">>}

FInit ==
    /\ fPc = "loop"
    /\ fOrder \in FallbackOrders
    /\ fAvail \in SUBSET ModelNames
    /\ fIdx = 1
    /\ fTried = <<>>
    /\ fResult = "none"

FOff ==
    /\ fPc = "off"
    /\ fOrder = <<>>
    /\ fAvail = {}
    /\ fIdx = 0
    /\ fTried = <<>>
    /\ fResult = "none"

\* generate_with_model(model_name, category): the source of what it returns,
\* given what the API of an available model answers.
generate_with_model(model_name, answer) ==
    IF model_name \in fAvail
    THEN (IF answer = "raise" THEN "None" ELSE answer)
    ELSE "fallback"

\* One pass of "for model in fallback_order" and, after the last pass, the
\* "return None" that follows the loop.
TryModel(answer) ==
    /\ fPc = "loop"
    /\ UNCHANGED fOthers
    /\ fIdx <= Len(fOrder)
    /\ LET question == generate_with_model(fOrder[fIdx], answer)
       IN  /\ fTried' = Append(fTried, fOrder[fIdx])
           /\ IF question \in {"model", "fallback"}
              THEN /\ fPc' = "returned"
                   /\ fResult' = question
                   /\ UNCHANGED fIdx
              ELSE IF fIdx < Len(fOrder)
                   THEN /\ fIdx' = fIdx + 1
                        /\ UNCHANGED <<fPc, fResult>>
                   ELSE /\ fPc' = "returned"
                        /\ fResult' = "None"
                        /\ UNCHANGED fIdx
    /\ UNCHANGED <<fOrder, fAvail>>

FNext == \E answer \in {"model", "invalid", "None", "raise"} : TryModel(answer)

(***************************************************************************)
(* AIManager.generate_question (src/ai_manager.py)                         *)
(***************************************************************************)
\* The public methods of FallbackSystem (src/fallback_system.py).
FallbackSystemMethods ==
    {"setup_fallback_resources", "load_fallback_questions", "load_fallback_backgrounds",
     "load_fallback_sounds", "get_fallback_question", "get_fallback_background",
     "get_silent_audio_base64", "track_failure", "should_use_fallback",
     "get_service_status", "create_minimal_video_fallback"}

\* initialize_models appends in this order the models that have a key.
AvailableModelLists ==
    {<<>>, <<"gemini">>, <<"groq">>, <<"openai">>, <<"gemini", "groq">>,
     <<"gemini", "openai">>, <<"groq", "openai">>, <<"gemini", "groq", "openai">>}

AInit ==
    /\ aPc \in {"loop", "fallback"}
    /\ aAvail \in AvailableModelLists
    /\ aPc = "fallback" <=> aAvail = <<>>
    /\ aIdx = 1
    /\ aCalls = <<>>
    /\ aResult = "none"
    /\ aRaised = None

AOff ==
    /\ aPc = "off"
    /\ aAvail = <<>>
    /\ aIdx = 0
    /\ aCalls = <<>>
    /\ aResult = "none"
    /\ aRaised = None

\* One pass of "for model_name in self.available_models".
GenerateWithModel(outcome) ==
    /\ aPc = "loop"
    /\ UNCHANGED aOthers
    /\ aCalls' = Append(aCalls, aAvail[aIdx])
    /\ IF outcome = "question"
       THEN /\ aPc' = "returned"
            /\ aResult' = aAvail[aIdx]
            /\ UNCHANGED aIdx
       ELSE /\ aPc' = IF aIdx < Len(aAvail) THEN "loop" ELSE "fallback"
            /\ aIdx' = aIdx + 1
            /\ UNCHANGED aResult
    /\ UNCHANGED <<aAvail, aRaised>>

\* Lines 101-104: question_data = self.fallback.get_question().
UseFallback ==
    /\ aPc = "fallback"
    /\ UNCHANGED aOthers
    /\ IF "get_question" \in FallbackSystemMethods
       THEN /\ aPc' = "returned"
            /\ aResult' = "fallback"
            /\ UNCHANGED aRaised
       ELSE /\ aPc' = "raised"
            /\ aRaised' = "AttributeError"
            /\ UNCHANGED aResult
    /\ UNCHANGED <<aAvail, aIdx, aCalls>>

ANext ==
    \/ \E outcome \in {"question", "None", "raise"} : GenerateWithModel(outcome)
    \/ UseFallback


(***************************************************************************)
(* Specifications                                                          *)
(***************************************************************************)
InitChain ==
    ChainInit /\ RateOff /\ QOff /\ GOff /\ DOff /\ SOff /\ GateOff
    /\ TOff /\ MOff /\ UOff /\ VOff /\ YOff /\ FOff /\ AOff
SpecChain == InitChain /\ [][ChainNext]_vars

InitRate ==
    RateInit /\ ChainOff /\ QOff /\ GOff /\ DOff /\ SOff /\ GateOff
    /\ TOff /\ MOff /\ UOff /\ VOff /\ YOff /\ FOff /\ AOff
SpecRate == InitRate /\ [][RateNext]_vars

\* The two question sources, one exercised per behaviour.
InitSource ==
    /\ ChainOff /\ RateOff /\ DOff /\ SOff /\ GateOff /\ TOff /\ MOff /\ UOff /\ VOff /\ YOff /\ FOff /\ AOff
    /\ \/ QInit /\ GOff
       \/ QOff /\ GInit
SourceNext == QNext \/ GNext
SpecSource == InitSource /\ [][SourceNext]_vars

InitDaily ==
    DInit /\ ChainOff /\ RateOff /\ QOff /\ GOff /\ SOff /\ GateOff
    /\ TOff /\ MOff /\ UOff /\ VOff /\ YOff /\ FOff /\ AOff
SpecDaily == InitDaily /\ [][DNext]_vars

InitScripts ==
    SInit /\ ChainOff /\ RateOff /\ QOff /\ GOff /\ DOff /\ GateOff
    /\ TOff /\ MOff /\ UOff /\ VOff /\ YOff /\ FOff /\ AOff
SpecScripts == InitScripts /\ [][SNext]_vars

InitGate ==
    GateInit /\ ChainOff /\ RateOff /\ QOff /\ GOff /\ DOff /\ SOff
    /\ TOff /\ MOff /\ UOff /\ VOff /\ YOff /\ FOff /\ AOff
SpecGate == InitGate /\ [][GateNext]_vars

\* The two renderers, one exercised per behaviour.
InitTiming ==
    /\ ChainOff /\ RateOff /\ QOff /\ GOff /\ DOff /\ SOff /\ GateOff /\ UOff /\ VOff /\ YOff /\ FOff /\ AOff
    /\ \/ TInit /\ MOff
       \/ TOff /\ MInit
TimingNext == TNext \/ MNext
SpecTiming == InitTiming /\ [][TimingNext]_vars

\* The uploader and the short maker, one exercised per behaviour.  Every
\* next_chunk call and every token refresh returns or raises, hence the
\* fairness on the uploader's steps.
InitPublish ==
    /\ ChainOff /\ RateOff /\ QOff /\ GOff /\ DOff /\ SOff /\ GateOff /\ TOff /\ MOff
    /\ FOff /\ AOff
    /\ \/ UInit /\ VOff /\ YOff
       \/ UOff /\ VInit /\ YOff
       \/ UOff /\ VOff /\ YInit
PublishNext == UNext \/ VNext \/ YNext
SpecPublish == InitPublish /\ [][PublishNext]_vars /\ WF_vars(UNext)

\* The two model-fallback loops, one exercised per behaviour.
InitModels ==
    /\ ChainOff /\ RateOff /\ QOff /\ GOff /\ DOff /\ SOff /\ GateOff /\ TOff /\ MOff
    /\ UOff /\ VOff /\ YOff
    /\ \/ FInit /\ AOff
       \/ FOff /\ AInit
ModelsNext == FNext \/ ANext
SpecModels == InitModels /\ [][ModelsNext]_vars

(***************************************************************************)
(* Claims: RateLimiter (SpecRate)                                          *)
(***************************************************************************)

\* C1: after any sequence of can_upload, record_upload and remaining calls for
\* a calendar date, the persisted count for that date never exceeds max_per_day.
C1_CountNeverExceedsMax ==
    rlFile # NoFile => rlFile.count <= max_per_day

C3_TwoRunsWithinQuota ==
    /\ dPublishedToday <= 4
    /\ dRun >= 2 => dUploaded = 0

(***************************************************************************)
(* Claims: scripts/main.py (SpecScripts)                                   *)
(***************************************************************************)
PersistedFingerprints ==
    {Fingerprint(load_history.questions[k]) : k \in 1..Len(load_history.questions)}

\* C5: for any sequence of runs sharing the persisted history, including runs
\* that fail part-way, no two items accepted for production have the same
\* question/answer fingerprint.
C5_NoDuplicateAccepted ==
    ~sDupAccepted

\* C6: an accepted question is in the persisted dedup store as soon as it is
\* accepted, before its rendering or upload starts, so that the same content
\* is never offered again after a render or upload failure.
C6_AcceptedRecordedAtOnce ==
    /\ sPc \in {"tts", "video", "compile", "auth", "upload", "upload_compilation", "failed"}
          => sAccepted \subseteq PersistedFingerprints
    /\ sPc = "tts" => Fingerprint(sCur) \in PersistedFingerprints

(***************************************************************************)
(* Claims: try_chain (SpecChain)                                           *)
(***************************************************************************)
Returning == {i \in 1..Len(cHandlers) : cHandlers[i].kind = "return"}

\* C7: try_chain invokes its handlers strictly in list order, each at most once,
\* returns the result of the first handler that does not raise, invokes no
\* handler after it, and does not propagate an earlier handler's exception.
C7_FirstSuccessInOrder ==
    /\ \A i \in 1..Len(cCalls) : cCalls[i] = i
    /\ \A i \in 1..Len(cCalls) : \A r \in Returning : cCalls[i] <= r
    /\ cPc = "returned" =>
          /\ Len(cCalls) \in Returning
          /\ \A j \in 1..(Len(cCalls) - 1) : j \notin Returning
          /\ cResult = cHandlers[Len(cCalls)].val
          /\ cRaised = None
    /\ Returning # {} => cPc # "raised"

C7_Witness ==
    /\ cPc = "returned"
    /\ Len(cHandlers) = 3
    /\ cHandlers[1].kind = "raise"
    /\ cHandlers[2] = [kind |-> "return", val |-> "x"]
    /\ cCalls = <<1, 2>>
    /\ cResult = "x"

C4_ReturnedQuestionUnused ==
    qPc = "returned" => ~is_used(qSpec.question)

\* C9: the question source never fails: generate_unique_short_spec and
\* generate_quiz_item raise no exception and end by returning an item, for
\* every sequence of provider errors, malformed, unsafe and duplicate outputs.
C9_SourceNeverFails ==
    /\ qPc # "raised" /\ qRaised = None
    /\ gPc # "raised" /\ gRaised = None
    /\ qPc = "returned" => qSpec \in local_bank \/ qVia = "llm"
    /\ gPc = "returned" => gItem # NoItem

C9_Witness ==
    /\ gPc = "returned"
    /\ gItem.provider = "fallback"
    /\ Len(gCalls) = 2 * max_attempts

\* C10: every item the question source returns passes the content safety
\* gate (length bounds, no URL-like substring, no banned pattern), whether it
\* comes from an LLM, from the local bank or from _fallback_item.
C10_ReturnedItemPassesGate ==
    /\ qPc = "returned" => looks_safe(qSpec.question, qSpec.answer)
    /\ gPc = "returned" => validate_text_is_safe(gItem.question, gItem.answer)

C10_Witness ==
    /\ qPc = "returned"
    /\ qVia = "final"
    /\ qSpec.category = "Brain Teaser"

HasUrl(t) == Contains(Lower(t), "http") \/ Contains(Lower(t), "www")

UrlOrBanned ==
    \/ HasUrl(gtQuestion) \/ HasUrl(gtAnswer)
    \/ BANNED_RE_search(gtQuestion) \/ BANNED_RE_search(gtAnswer)

\* C12: the gate rejects when the question length is < 8 or > 150 or the answer
\* length is < 1 or > 60, and accepts a pair whose question length is in 8..150
\* and answer length in 1..60 with no URL, no banned pattern and at most 4
\* newlines.
C12_GateLengthRules ==
    gtPc = "validated" =>
        /\ (\/ Len(gtQuestion) < 8 \/ Len(gtQuestion) > 150
            \/ Len(gtAnswer) < 1 \/ Len(gtAnswer) > 60) => ~gtOk
        /\ (/\ Len(gtQuestion) \in 8..150
            /\ Len(gtAnswer) \in 1..60
            /\ ~UrlOrBanned
            /\ Count(gtQuestion, "\n") <= 4) => gtOk

\* C13: the gate rejects a pair whenever the question or the answer contains a
\* URL-like substring or matches a banned-topic pattern, case-insensitively,
\* whatever the lengths; it accepts ("What is the capital of Japan?", "Tokyo"),
\* rejects ("Hi?", "Tokyo") and rejects ("Name this song's lyrics?", "x").
C13_GateRejectsUrlAndBanned ==
    gtPc = "validated" =>
        /\ UrlOrBanned => ~gtOk
        /\ (gtQuestion = "What is the capital of Japan?" /\ gtAnswer = "Tokyo") => gtOk
        /\ (gtQuestion = "Hi?" /\ gtAnswer = "Tokyo") => ~gtOk
        /\ (gtQuestion = "Name this song's lyrics?" /\ gtAnswer = "x") => ~gtOk

C13_Witness ==
    /\ gtPc = "validated"
    /\ gtQuestion = "Who won the ELECTION in 1900?"
    /\ gtAnswer = "Tokyo"
    /\ ~gtOk

(***************************************************************************)
(* Claims: timing (SpecTiming)                                             *)
(***************************************************************************)
CountdownTicks == tCountdown * TicksPerSecond
RevealTicks == tReveal * TicksPerSecond

\* C14: for every measured narration duration (a positive one; build_short has
\* no floor), countdown >= 0 and reveal >= 0: countdown start = narration
\* duration (to the millisecond), reveal start = narration + countdown, reveal
\* end = reveal start + reveal, total = reveal end = narration + countdown +
\* reveal.
C14_TimingPlanOffsets ==
    (tPc \in {"planned", "render", "failed"} /\ tAudioDur > 0) =>
        /\ tPlan.audio_dur = tAudioDur
        /\ Format3(tPlan.audio_dur) - tAudioDur \in -TicksPerMilli..TicksPerMilli
        /\ tPlan.answer_start = tAudioDur + CountdownTicks
        /\ tPlan.answer_end = tPlan.answer_start + RevealTicks
        /\ tPlan.total_dur = tPlan.answer_end
        /\ tPlan.total_dur = tAudioDur + CountdownTicks + RevealTicks

\* The part of C15 that concerns build_short.
CountdownDrawnByBuildShort ==
    (tPc = "render" /\ tAudioDur >= 0) =>
        /\ tPrev # NothingShown => tShown <= tPrev
        /\ tT = Format3(tAudioDur) => tShown = tCountdown
        /\ tT = Format3(tAudioDur + CountdownTicks) => tShown = 0

\* The part of C15 that concerns compose_short.
CountdownDrawnByComposeShort ==
    mPc = "render" =>
        /\ mPrev # NothingShown => mShown <= mPrev
        /\ mT = 0 => mShown = mQuestionDuration
        /\ mT = mQuestionDuration * HalvesPerSecond => mShown = 0

\* C15: across the countdown phase the displayed countdown value is
\* non-increasing in time, starts at countdown_seconds at the start of the
\* phase and equals exactly 0 at the end of the phase.
C15_CountdownReachesZero ==
    CountdownDrawnByBuildShort /\ CountdownDrawnByComposeShort

\* C16: the timing values use max(measured narration, floor) for every offset,
\* so that a zero or negative probe result never gives a countdown start or a
\* reveal start below the floor (here: below any positive floor).
C16_OffsetsNeverBelowFloor ==
    tPc \in {"planned", "render", "failed"} =>
        /\ tPlan.audio_dur > 0
        /\ tPlan.answer_start > CountdownTicks
        /\ tPc = "render" => tT > 0

(***************************************************************************)
(* Claims: the orchestrators (SpecScripts, SpecDaily)                      *)
(***************************************************************************)

\* C17: a failure while rendering or uploading one item aborts only that item;
\* the run is not aborted and the remaining slots are still attempted.
C17_ItemFailureDoesNotAbortRun ==
    sError \in {"VideoError", "UploadError"} => sPc # "failed"

\* C18: the daily publish counter is incremented exactly once for each
\* confirmed successful upload, so after a run the persisted count for the day
\* equals the number of items published that day.
C18_CountEqualsPublished ==
    dPc = "done" => read_json(rlFile, DefaultState).count = dPublishedToday

\* C19: if persisting the dedup or quota state fails, the whole run aborts: the
\* failure is not swallowed and nothing is generated or published in that run
\* after it.
C19_PersistFailureAbortsRun ==
    sError = "OSError" =>
        /\ sPc = "failed"
        /\ sHistory = EmptyHistory
        /\ sShorts = <<>>

C19_Witness ==
    /\ sPc = "failed"
    /\ sError = "OSError"
    /\ sUploaded # {}
    /\ sFile = NoHistoryFile

\* C20: writes of persisted state are atomic with respect to a crash: after the
\* process is killed during a write the file holds the last committed state or
\* the new one, never a partial one, and the next run reads it successfully.
C20_StateWritesAtomic ==
    /\ sFile # TornHistoryFile
    /\ sError # "JSONDecodeError"

\* ---------------------------------------------------------------------------
\* RateLimiter: the queries and the recording step (utils/rate_limit.py)
\* ---------------------------------------------------------------------------

\* The stored state belongs to an earlier calendar date than now.
StoredDateDiffers == read_json(rlFile, DefaultState).date # strftime(now)

C21_StaleDateCountsAsZero ==
    /\ rlLastOp = "can_upload" /\ StoredDateDiffers => rlAnswer = TRUE
    /\ rlLastOp = "remaining" /\ StoredDateDiffers => rlRemaining = max_per_day

\* C21: can_upload and remaining never modify the persisted state: the file
\* changes only in a record_upload step. When the stored date differs from
\* now's calendar date, can_upload answers true and remaining answers
\* max_per_day, and the stale date and count are still in the file afterwards.
C21_QueriesLeaveStateAlone ==
    /\ []C21_StaleDateCountsAsZero
    /\ [][rlFile' # rlFile =>
            rlLastOp' = "record_upload" /\ rlRecorded' = rlRecorded + 1]_vars

\* remaining was asked on day 2 while the file still holds day 1 with uploads.
C21_Witness ==
    /\ rlLastOp = "remaining"
    /\ rlFile # NoFile
    /\ rlFile.date = 1 /\ rlFile.count >= 1
    /\ now.day = 2
    /\ rlRemaining = max_per_day

\* C22: record_upload(now) reads the state, and writes {date: today, count: 1}
\* when the stored date differs from today's, and the stored date with the
\* count grown by exactly 1 when it is today's.
C22_RecordUploadReadModifyWrite ==
    [][rlRecorded' = rlRecorded + 1 =>
        LET old == read_json(rlFile, DefaultState)
        IN  IF old.date # strftime(now)
            THEN rlFile' = [date |-> strftime(now), count |-> 1]
            ELSE rlFile' = [date |-> old.date, count |-> old.count + 1]]_vars

\* The first recording of day 2 left exactly {date: 2, count: 1} in the file.
C22_Witness ==
    /\ rlLastOp = "record_upload"
    /\ now.day = 2
    /\ rlFile = [date |-> 2, count |-> 1]
    /\ rlRecorded = 1

NormalizedUsed ==
    {<<normalize_text(sHistory.questions[k].question),
       normalize_text(sHistory.questions[k].answer)>> : k \in 1..Len(sHistory.questions)}

\* C24: a candidate that differs from a used question/answer only in case,
\* leading or trailing whitespace, or runs of internal whitespace is treated as
\* a duplicate: generate_unique_question does not accept it.
C24_NormalizedDuplicateRejected ==
    sPc = "tts" =>
        <<normalize_text(sCur.question), normalize_text(sCur.answer)>> \notin NormalizedUsed

(***************************************************************************)
(* Claims: upload_video, create_short_video (SpecPublish)                  *)
(***************************************************************************)
C25_AttemptsBounded ==
    /\ uMade <= uLen * upload_max_attempts
    /\ uIds <= 1
    /\ uIds = 1 <=> uResult = "UploadResult"
    /\ uResult = "youtube_upload_failed" =>
          /\ uMade = uLen * upload_max_attempts
          /\ uIds = 0

\* C25: upload_video makes at most len(oauth_list) * 5 attempts, returns on the
\* first attempt that yields a video id, raises youtube_upload_failed only
\* after all the attempts were made, and always comes to an end.
C25_UploadRetriesBounded ==
    /\ []C25_AttemptsBounded
    /\ (uPc \in {"service", "chunk"}) ~> (uPc \in {"returned", "raised"})

\* Every attempt with every credential failed and the function raised.
C25_Witness ==
    /\ uResult = "youtube_upload_failed"
    /\ uLen = MaxOauth
    /\ uMade = MaxOauth * upload_max_attempts

\* C30: a short that create_short_video reports as created holds the question,
\* the countdown and the answer phase in this order and lasts
\* question_duration + countdown_duration + answer_duration, also when the
\* countdown audio could not be generated.
C30_CreatedShortHasThreePhases ==
    vCreated = "output_video" =>
        /\ [i \in 1..Len(vClips) |-> vClips[i].phase] = <<"question", "countdown", "answer">>
        /\ vDuration = vQuestionDuration + countdown_duration + answer_duration

(***************************************************************************)
(* Claims: the long compilation of run_daily_automation (SpecDaily)        *)
(***************************************************************************)

\* C29: whenever at least 2 shorts were uploaded in a run of
\* run_daily_automation, a long compilation is compiled from them and its
\* upload is attempted (or the compiling itself was tried and failed).
C29_LongVideoFromTwoShorts ==
    dPc = "done" /\ dUploaded >= MinShortsForLong =>
        dLong \in {"upload_tried", "compile_failed"}

(***************************************************************************)
(* Claims: the loops of generate_unique_short_spec (SpecSource)            *)
(***************************************************************************)
C26_LoopsBounded ==
    /\ qAttempt <= LlmAttempts + 1
    /\ qBankTry <= BankRetries + 1
    /\ qPc \in {"bank", "final"} => qAttempt = LlmAttempts + 1
    /\ qPc = "final" => qBankTry = BankRetries + 1
    /\ qPc = "returned" /\ qVia = "llm" => qAttempt <= LlmAttempts /\ qBankTry = 0

\* The passes the two loops and the last draw can still make.
PassesLeft ==
    IF qPc \in {"llm", "bank", "final"}
    THEN 1 + (LlmAttempts + 1 - qAttempt) + (BankRetries + 1 - qBankTry)
    ELSE 0

\* C26: generate_unique_short_spec makes at most 6 LLM attempts, then at most
\* 49 local-bank draws and one last draw, and comes to an end for every
\* input: each step of the function lowers the number of passes left, which
\* is never negative.
C26_ShortSpecTerminates ==
    /\ [](C26_LoopsBounded /\ PassesLeft >= 0)
    /\ [][qVars' # qVars => PassesLeft' < PassesLeft]_vars

\* All 6 LLM attempts and all 49 bank draws failed; the last draw was returned.
C26_Witness ==
    /\ qPc = "returned"
    /\ qVia = "final"
    /\ qAttempt = LlmAttempts + 1
    /\ qBankTry = BankRetries + 1

(***************************************************************************)
(* Claims: the once-a-day guard and the history of scripts/main.py         *)
(* (SpecScripts)                                                           *)
(***************************************************************************)

\* A run of main() starts with a readable history whose last_run is today.
StartsHavingRunToday ==
    /\ sRun' = sRun + 1
    /\ sFile # TornHistoryFile
    /\ load_history.last_run = sDay

\* The history file gets a new last_run.
LastRunWritten ==
    /\ sFile' # TornHistoryFile
    /\ sFile'.last_run # sFile.last_run

\* C27: when history.last_run equals today's UTC date, main() returns at once:
\* nothing is generated, rendered or uploaded and the history file stays as it
\* is. last_run is written, as the date of the run, only by a run that has
\* uploaded all four shorts and the compilation.
C27_OnceADay ==
    /\ [][StartsHavingRunToday =>
            /\ sPc' = "done"
            /\ sFile' = sFile
            /\ sUploaded' = sUploaded
            /\ sAccepted' = sAccepted
            /\ sShorts' = <<>>
            /\ sError' = None]_vars
    /\ [][LastRunWritten =>
            /\ sPc = "save"
            /\ sUp = ShortsPerDay
            /\ Len(sShorts) = ShortsPerDay
            /\ sFile'.last_run = sToday]_vars

\* A second run on the day of a completed run has returned.
C27_Witness ==
    /\ sPc = "done"
    /\ sRun = 2
    /\ sDay = 1
    /\ sFile # NoHistoryFile
    /\ sFile # TornHistoryFile
    /\ sFile.last_run = 1
    /\ Len(sFile.questions) = ShortsPerDay
    /\ sShorts = <<>>

\* The questions in the history file.
PersistedQuestions ==
    {load_history.questions[k].question : k \in 1..Len(load_history.questions)}

\* C28: after a run has ended, normally or by an exception of a later upload,
\* every question whose short was uploaded is in the persisted history, so
\* that a later run cannot generate and upload it again.
C28_UploadedQuestionsPersisted ==
    sPc \in {"done", "failed"} /\ sFile # TornHistoryFile =>
        sUploaded \subseteq PersistedQuestions

(***************************************************************************)
(* Claims: the overlays of build_short (SpecTiming)                        *)
(***************************************************************************)

\* C31: on no frame of the video rendered by build_short is the answer overlay
\* enabled together with the question overlay, or together with the
\* countdown overlay.
C31_OverlaysNeverOverlap ==
    tPc = "render" =>
        /\ ~(question_enabled(tT) /\ answer_enabled(tT))
        /\ ~(countdown_enabled(tT) /\ answer_enabled(tT))

(***************************************************************************)
(* Claims: the credential sets of upload_video (SpecPublish)               *)
(***************************************************************************)

\* C32: upload_video fails only with youtube_upload_failed and only after
\* every credential set of oauth_list was tried: a failure with one set,
\* a failed refresh or build of its service included, moves on to the next.
C32_EveryCredentialTried ==
    uPc = "raised" =>
        /\ uResult = "youtube_upload_failed"
        /\ uOauth = uLen

(***************************************************************************)
(* Claims: upload_to_youtube (SpecPublish)                                 *)
(***************************************************************************)

C35_FallbackOnlyAfterAllModels ==
    fResult = "fallback" => fTried = fOrder

\* C38: AIManager.generate_question does not raise and always returns a
\* question: the result of the first available model that gives one, tried in
\* available_models order, and otherwise a FallbackSystem question with
\* source "fallback".
C38_AlwaysReturnsQuestion ==
    /\ aPc # "raised" /\ aRaised = None
    /\ aPc = "returned" =>
          \/ aResult = "fallback" /\ aCalls = aAvail
          \/ aResult # "fallback" /\ aCalls # <<>> /\ aResult = aCalls[Len(aCalls)]
    /\ \A i \in 1..Len(aCalls) : aCalls[i] = aAvail[i]

(***************************************************************************)
(* Claims: the attempts of generate_unique_question (SpecScripts)          *)
(***************************************************************************)

\* C34: an attempt of generate_unique_question on which no provider produces
\* a question is skipped and followed by the next attempt: the only exception
\* that leaves the function is its own, after 10 attempts without a
\* non-duplicate question, never the failure of the providers.
C34_FailedAttemptIsSkipped ==
    [][sPc = "generate" /\ sPc' = "failed" =>
          /\ sError' = "Failed to generate unique question"
          /\ sAttempt = max_attempts_unique - 1]_vars

(***************************************************************************)
(* Claims: the provider order of generate_quiz_item (SpecSource)           *)
(***************************************************************************)

\* n copies of the provider named p.
CallsOf(p, n) == [k \in 1..n |-> p]

\* The calls made once the first n entries of cfg.llm_order are done with:
\* max_attempts calls for each entry that is called, none for the others.
RECURSIVE CallsThrough(_)
CallsThrough(n) ==
    IF n = 0 THEN <<>>
    ELSE CallsThrough(n - 1)
         \o (IF provider_called(provider_name(gOrder[n]))
             THEN CallsOf(provider_name(gOrder[n]), max_attempts) ELSE <<>>)

C37_PaidProviderNeedsOptIn ==
    \A i \in 1..Len(gCalls) :
        gCalls[i] = "openai" => gAllowPaid /\ "openai" \in gKeys

\* openai comes first in the order and has a key, paid providers are not
\* allowed, and the next provider failed all its attempts: openai was skipped.
C37_Witness ==
    /\ gPc \in {"returned", "recorded"}
    /\ Len(gOrder) = 2
    /\ provider_name(gOrder[1]) = "openai"
    /\ "openai" \in gKeys
    /\ ~gAllowPaid
    /\ Len(gCalls) = max_attempts
    /\ gCalls[1] # "openai"
    /\ gItem.provider = "fallback"

====
